---- MODULE Spec2Model ----
(***************************************************************************)
(* Verification model of tysjosh/backend_tools.                            *)
(*                                                                         *)
(* Part I:  the auth controller (controller/auth.py) over the session-     *)
(*          token table, the confirm-token table and the two user          *)
(*          relations, on one database connection.                         *)
(*            Spec           all eight controller operations               *)
(*            SpecLifecycle  registration, activation, password reset      *)
(*            SpecSession    session tokens under a running clock          *)
(* Part II: the connection pool and the DB-method decorator of             *)
(*          backend_tools/postgres_drv.py with the execute_query_env       *)
(*          wrapper of backend_tools/sqlwerks.py.                          *)
(*            SpecDrv        the pool and its decorated primitives         *)
(*                                                                         *)
(* Conventions.  Python None, '' and 0 are all "falsy" in the guards of    *)
(* the code (`if token:`, `if user_id:`); the model writes them 0 (ids and *)
(* token values) and <<>> (a result of None).  generate_token draws 28     *)
(* random bytes behind a time prefix; the model idealises it as a source   *)
(* of values never produced before (a sequence).  Columns that no modelled *)
(* code reads (person_name, country, created_at, ...) are left out.        *)
(***************************************************************************)
EXTENDS Integers, Sequences, FiniteSets, TLC

\* ------------------------------------------------------------------ bounds
\* Each specification caps the two token generators (values generated so far).
AllMaxCtk  == 2   \* Spec:          confirm-token values
AllMaxTok  == 2   \* Spec:          session-token values (two per pair)
LifeMaxCtk == 3   \* SpecLifecycle: confirm-token values
SessMaxCtk == 2   \* SpecSession:   confirm-token values
SessMaxTok == 6   \* SpecSession:   session-token values (two per pair)
MaxTime    == 2   \* SpecSession:   clock ticks
TTL_ACCESS_TOKEN  == 1   \* configurable (cfg 'ttl_access_token'), in ticks
TTL_REFRESH_TOKEN == 2   \* configurable (cfg 'ttl_refresh_token'), in ticks
MaxStatements     == 3   \* SpecCommit:    statements of one behaviour
BlockMaxCtk == 1  \* SpecBlocked:   confirm-token values
BlockMaxTok == 4  \* SpecBlocked:   session-token values (two per pair)

\* --------------------------------------------------------- program constants
ERR_OK                      == 0
ERR_AUTHORIZATION_FAILED    == 100
ERR_ACCESS_TOKEN_EXPIRED    == 101
ERR_REFRESH_TOKEN_EXPIRED   == 102
ERR_CONFIRM_TOKEN_NOT_FOUND == 120
ERR_INVALID_PARAMS          == 201
ERR_USER_EMAIL_EXISTS       == 1002
ERR_PASSWORD_MISMATCH       == 1004
ERR_WRONG_LOGIN_PARAMS      == 1011
ERR_USER_BLOCKED            == 1012
ERR_NO_ACTIVATION           == 8001

TOKEN_PASSWORD_RESET == "pr"
TOKEN_NEW_USER       == "nu"
PG_WITHOUT_COMMIT    == FALSE

\* ------------------------------------------------------------ input domains
Emails    == {"a@x", "A@x", "b@x"}
Passwords == {"p", "q"}
TokArgs(n) == 0..n          \* 0: an absent / empty token argument

VARIABLES
  tb_registration,  \* pending users:   set of [id, email, hash]
  tb_user,          \* activated users: set of [id, email, hash, deleted]
  token,            \* service.token:   set of [user_id, refresh, refresh_expiration, access, access_expiration]
  confirm_token,    \* service.confirm_token: set of [user_id, token, type]
  seq,              \* generators: [reg, usr, tok, ctk]
  lim,              \* caps of the generators and of the clock: [ctk, tok, time]
  committed,        \* the four tables as of the last COMMIT of the connection
  now,              \* the clock
  last,             \* the last call: operation, arguments and outcome
  spent,            \* history: token values used up by a successful refresh, logout or activation
  configuration,    \* postgres_drv._configuration
  connections,      \* postgres_drv._connections
  channels,         \* postgres_drv._channels
  sockets,          \* every physical connection opened so far, by handle
  server_up,        \* whether the database server accepts and serves connections
  drv_last,         \* the last driver call and its outcome
  etc_backend_cfg,  \* configuration.py: etc/backend.cfg merged with etc/backend-local.cfg
  _cfg_obj,         \* configuration._cfg_obj: [_cfg, _sec_environment]
  n_params,         \* builder/where.py: Param.n_params
  input,            \* the arguments a behaviour applies a pure helper to
  lib_last,         \* the last call of a helper library and its outcome
  ERRORS,           \* backend_tools/errors.py: ERRORS, code -> message
  rest_ERRORS,      \* backend_rest_api/errors.py: ERRORS, the codes not registered yet
  HTTP_STATUS_CODES,\* backend_rest_api/errors.py: HTTP_STATUS_CODES
  err_last,         \* the last call on the error registry, with the registry before it
  _log,             \* logger._log: the logger [set, handlers, level], set false for None
  _settings,        \* logger._settings
  _last_warning,    \* logger._last_warning
  _last_warning_cnt,
  _last_error,      \* logger._last_error
  _last_error_cnt,
  log_last,         \* the last logger call, the records it wrote, and the runs of
                    \* equal warnings and of equal errors before and after it
  cron_time,        \* decorators.py: what time() returns
  next_start,       \* CronTaskGenerator.next_start
  gen_pc,           \* the generator core(*args): the yield it is suspended at
  cron_last,        \* the last resume of the generator: its time, next_start before it, calls of func
  tab_lists,        \* tabular.py: the list objects that hold rows, by identity
  tab_objs,         \* the Tabular objects: [rows: the identity of its list, cols]
  tab_last,         \* the last Tabular method call
  race              \* two refresh_tokens calls in progress, each on a connection of its own

authvars == <<tb_registration, tb_user, token, confirm_token, seq, lim, committed, now, last, spent>>
drvvars  == <<configuration, connections, channels, sockets, server_up, drv_last>>
cfgvars  == <<etc_backend_cfg, _cfg_obj>>
errvars  == <<ERRORS, rest_ERRORS, HTTP_STATUS_CODES, err_last>>
logvars  == <<_log, _settings, _last_warning, _last_warning_cnt, _last_error, _last_error_cnt, log_last>>
cronvars == <<cron_time, next_start, gen_pc, cron_last>>
tabvars  == <<tab_lists, tab_objs, tab_last>>
libvars  == <<cfgvars, n_params, input, lib_last, errvars, logvars, cronvars, tabvars, race>>
\* the library state other than that of one library
but_cfg   == <<n_params, input, errvars, logvars, cronvars, tabvars, race>>
but_where == <<cfgvars, input, errvars, logvars, cronvars, tabvars, race>>
vars     == <<authvars, drvvars, libvars>>

\* ===========================================================================
\*                      Part I: users, tokens, controller
\* ===========================================================================

\* str.lower() / SQL lower() on the e-mail alphabet of the model
\* variant: the comparison keeps the case
lower_keep(e) == e

lower(e) == IF e = "A@x" THEN "a@x" ELSE e

\* misc.get_salted_hash / misc.check_salted_hash (bcrypt; the salt is not modelled)
get_salted_hash(password) == <<"bcrypt", password>>
check_salted_hash(password, pswd_hash) ==
  IF pswd_hash = <<>> THEN FALSE ELSE pswd_hash[2] = password

NoUser == [id |-> 0, email |-> "", hash |-> <<>>, deleted |-> FALSE]

Tables(e) == [reg |-> e.reg, usr |-> e.usr, tok |-> e.tok, ctk |-> e.ctk]

\* The environment threaded through one call: the tables as the connection
\* sees them, the generators, the committed snapshot, and what the call did.
Env == [reg |-> tb_registration, usr |-> tb_user, tok |-> token, ctk |-> confirm_token,
        seq |-> seq, lim |-> lim, committed |-> committed,
        ncommit |-> 0, sent |-> <<>>, ovf |-> FALSE]

\* postgres_drv.execute_query, the transaction tail: commit / rollback / leave open
execute_query_tx(e, commit, rollback) ==
  IF commit /\ ~PG_WITHOUT_COMMIT
    THEN [e EXCEPT !.committed = Tables(e), !.ncommit = @ + 1]
    ELSE IF rollback
      THEN [e EXCEPT !.reg = e.committed.reg, !.usr = e.committed.usr,
                     !.tok = e.committed.tok, !.ctk = e.committed.ctk]
      ELSE e

\* the same tail with the flag PG_WITHOUT_COMMIT of the process as an argument
execute_query_end(e, commit, rollback, without_commit) ==
  IF commit /\ ~without_commit
    THEN [e EXCEPT !.committed = Tables(e), !.ncommit = @ + 1]
    ELSE IF rollback
      THEN [e EXCEPT !.reg = e.committed.reg, !.usr = e.committed.usr,
                     !.tok = e.committed.tok, !.ctk = e.committed.ctk]
      ELSE e

\* sqlwerks.do_commit
do_commit(e) == execute_query_tx(e, TRUE, FALSE)

\* ------------------------------------------------------------ access_token.py
tokens_create(e, user_id, commit) ==
  LET row == [user_id |-> user_id,
              refresh |-> e.seq.tok + 1, refresh_expiration |-> now + TTL_REFRESH_TOKEN,
              access  |-> e.seq.tok + 2, access_expiration  |-> now + TTL_ACCESS_TOKEN]
      e1  == [e EXCEPT !.tok = @ \cup {row}, !.seq.tok = @ + 2,
                       !.ovf = @ \/ (e.seq.tok + 2 > e.lim.tok)]
  IN [e |-> execute_query_tx(e1, commit, FALSE), token |-> row]

tokens_delete(e, user_id, access, refresh, commit) ==
  IF user_id = 0 /\ access = 0 /\ refresh = 0 THEN e
  ELSE LET keep == IF user_id # 0 THEN {r \in e.tok : r.user_id # user_id}
                   ELSE IF access # 0 THEN {r \in e.tok : r.access # access}
                   ELSE {r \in e.tok : r.refresh # refresh}
       IN execute_query_tx([e EXCEPT !.tok = keep], commit, FALSE)

\* body of check_access_token (before the raise_controller_error wrapper)
check_access_token_fn(e, access) ==
  LET rows == {r \in e.tok : r.access = access}
  IN IF rows = {} THEN [e |-> e, result |-> <<>>, code |-> ERR_ACCESS_TOKEN_EXPIRED, exc |-> ""]
     ELSE LET row == CHOOSE r \in rows : TRUE
          IN IF now < row.access_expiration
               THEN [e |-> e, result |-> <<row.user_id>>, code |-> ERR_OK, exc |-> ""]
               ELSE [e |-> e, result |-> <<>>, code |-> ERR_ACCESS_TOKEN_EXPIRED, exc |-> ""]

\* variant: the presented row is deleted only when it has expired
refresh_tokens_fn_keep(e, refresh) ==
  LET rows == {r \in e.tok : r.refresh = refresh}
  IN IF rows = {} THEN [e |-> e, result |-> <<>>, code |-> ERR_REFRESH_TOKEN_EXPIRED, exc |-> ""]
     ELSE LET row == CHOOSE r \in rows : TRUE
          IN IF now < row.refresh_expiration
               THEN LET c == tokens_create(e, row.user_id, TRUE)
                    IN [e |-> c.e, result |-> <<c.token>>, code |-> ERR_OK, exc |-> ""]
               ELSE [e |-> tokens_delete(e, 0, 0, refresh, TRUE), result |-> <<>>,
                     code |-> ERR_REFRESH_TOKEN_EXPIRED, exc |-> ""]

\* body of refresh_tokens (before the raise_controller_error wrapper)
refresh_tokens_fn(e, refresh) ==
  LET rows == {r \in e.tok : r.refresh = refresh}
  IN IF rows = {} THEN [e |-> e, result |-> <<>>, code |-> ERR_REFRESH_TOKEN_EXPIRED, exc |-> ""]
     ELSE LET row == CHOOSE r \in rows : TRUE
              e1  == tokens_delete(e, 0, 0, refresh, TRUE)
          IN IF now < row.refresh_expiration
               THEN LET c == tokens_create(e1, row.user_id, TRUE)
                    IN [e |-> c.e, result |-> <<c.token>>, code |-> ERR_OK, exc |-> ""]
               ELSE [e |-> e1, result |-> <<>>, code |-> ERR_REFRESH_TOKEN_EXPIRED, exc |-> ""]

\* decorators.raise_controller_error: core() around a body's outcome r.
\* An exception that leaves the body passes through core() untouched.
raise_controller_error(r, raise_error) ==
  IF r.exc # "" THEN r
  ELSE IF raise_error /\ r.code # ERR_OK
    THEN [r EXCEPT !.exc = "ControllerError", !.result = <<>>]
    ELSE r

check_access_token(e, access, raise_error) ==
  raise_controller_error(check_access_token_fn(e, access), raise_error)

refresh_tokens(e, refresh, raise_error) ==
  raise_controller_error(refresh_tokens_fn(e, refresh), raise_error)

\* variant: the row at the offset is kept with the rows before it
remove_rabbidz_strict(e, allowed_count) ==
  LET live == {r \in e.tok : r.access_expiration > now}
      at   == {r \in live : /\ Cardinality({x \in live : x.access_expiration < r.access_expiration}) <= allowed_count
                            /\ allowed_count < Cardinality({x \in live : x.access_expiration <= r.access_expiration})}
      rabbidz == {r \in e.tok : \E a \in at : r.access_expiration > a.access_expiration}
  IN [e |-> execute_query_tx([e EXCEPT !.tok = @ \ rabbidz], TRUE, FALSE),
      result |-> <<Cardinality(rabbidz)>>, code |-> ERR_OK, exc |-> ""]

\* remove_rabbidz: `at` holds the live rows with the access_expiration that
\* ORDER BY access_expiration OFFSET allowed_count LIMIT 1 selects (none when
\* there are at most allowed_count live rows: the comparison with NULL then
\* deletes nothing); every row expiring then or later is deleted
remove_rabbidz(e, allowed_count) ==
  LET live == {r \in e.tok : r.access_expiration > now}
      at   == {r \in live : /\ Cardinality({x \in live : x.access_expiration < r.access_expiration}) <= allowed_count
                            /\ allowed_count < Cardinality({x \in live : x.access_expiration <= r.access_expiration})}
      rabbidz == {r \in e.tok : \E a \in at : r.access_expiration >= a.access_expiration}
  IN [e |-> execute_query_tx([e EXCEPT !.tok = @ \ rabbidz], TRUE, FALSE),
      result |-> <<Cardinality(rabbidz)>>, code |-> ERR_OK, exc |-> ""]

\* ----------------------------------------------------------- confirm_token.py
\* the rows selected by whichever of user_id / token / token_type is truthy
confirm_token_match(e, user_id, tkn, token_type) ==
  {r \in e.ctk : /\ (user_id # 0 => r.user_id = user_id)
                 /\ (tkn # 0 => r.token = tkn)
                 /\ (token_type # "" => r.type = token_type)}

confirm_token_create(e, user_id, token_type, commit) ==
  LET row == [user_id |-> user_id, token |-> e.seq.ctk + 1, type |-> token_type]
      e1  == [e EXCEPT !.ctk = @ \cup {row}, !.seq.ctk = @ + 1,
                       !.ovf = @ \/ (e.seq.ctk + 1 > e.lim.ctk)]
  IN [e |-> execute_query_tx(e1, commit, FALSE), result |-> row, code |-> ERR_OK]

confirm_token_get(e, user_id, tkn, token_type, single) ==
  IF user_id = 0 /\ tkn = 0 /\ token_type = ""
    THEN [result |-> <<>>, code |-> ERR_INVALID_PARAMS]
  ELSE LET rows == confirm_token_match(e, user_id, tkn, token_type)
       IN IF rows = {} THEN [result |-> <<>>, code |-> ERR_CONFIRM_TOKEN_NOT_FOUND]
          ELSE IF single THEN [result |-> <<CHOOSE r \in rows : TRUE>>, code |-> ERR_OK]
          ELSE [result |-> <<rows>>, code |-> ERR_OK]

confirm_token_delete(e, user_id, tkn, token_type, commit) ==
  IF user_id = 0 /\ tkn = 0 /\ token_type = ""
    THEN [e |-> e, result |-> <<>>, code |-> ERR_INVALID_PARAMS]
  ELSE LET rows == confirm_token_match(e, user_id, tkn, token_type)
           e1   == execute_query_tx([e EXCEPT !.ctk = @ \ rows], commit, FALSE)
       IN IF rows = {} THEN [e |-> e1, result |-> <<0>>, code |-> ERR_CONFIRM_TOKEN_NOT_FOUND]
          ELSE [e |-> e1, result |-> <<Cardinality(rows)>>, code |-> ERR_OK]

create_password_reset_token(e, user_id, commit) ==
  confirm_token_create(e, user_id, TOKEN_PASSWORD_RESET, commit)
remove_password_reset_tokens(e, user_id, tkn, commit) ==
  confirm_token_delete(e, user_id, tkn, TOKEN_PASSWORD_RESET, commit)
get_password_reset_token(e, tkn) ==
  confirm_token_get(e, 0, tkn, TOKEN_PASSWORD_RESET, TRUE)
create_new_user_token(e, user_id, commit) ==
  confirm_token_create(e, user_id, TOKEN_NEW_USER, commit)
remove_new_user_tokens(e, user_id, tkn, commit) ==
  confirm_token_delete(e, user_id, tkn, TOKEN_NEW_USER, commit)
get_new_user_token(e, tkn) ==
  confirm_token_get(e, 0, tkn, TOKEN_NEW_USER, TRUE)

\* ------------------------------------------------------------- domain/auth.py
\* variant: the user's earlier reset tokens are not removed first
gen_new_reset_token_nopurge(e, user_id) ==
  LET c == create_password_reset_token(e, user_id, TRUE)
  IN [e |-> c.e, token |-> c.result]

gen_new_reset_token(e, user_id) ==
  LET d == remove_password_reset_tokens(e, user_id, 0, FALSE)
      c == create_password_reset_token(d.e, user_id, TRUE)
  IN [e |-> c.e, token |-> c.result]

gen_newb_token(e, user) ==
  LET d == remove_new_user_tokens(e, user.id, 0, FALSE)
      c == create_new_user_token(d.e, user.id, FALSE)
  IN [e |-> c.e, token |-> c.result]

get_existing_confirm_token(e, user_id) ==
  confirm_token_get(e, user_id, 0, TOKEN_NEW_USER, TRUE).result

\* ------------------------------------------------- datasource/user.py (absent)
\* select_users: the rows of the chosen relation as User models
select_users(e, activated) ==
  IF activated THEN e.usr
  ELSE {[id |-> r.id, email |-> r.email, hash |-> r.hash, deleted |-> FALSE] : r \in e.reg}

\* update_user(conn_id, uid, hash=...): set the hash of the activated row uid
update_user(e, uid, hash) ==
  [e EXCEPT !.usr = {IF u.id = uid THEN [u EXCEPT !.hash = hash] ELSE u : u \in e.usr}]

\* domain/mail send_invite / send_forgot: the mail leaves, or the call raises
send_mail(e, kind, user, tkn) == [e EXCEPT !.sent = Append(@, <<kind, user.id, tkn.token>>)]

\* ------------------------------------------------------------- domain/user.py
user_get_by(e, by_col, value, activated) ==
  LET users == IF by_col = "email"
                 THEN {u \in select_users(e, activated) : lower(u.email) = lower(value)}
                 ELSE {u \in select_users(e, activated) : u.id = value}
  IN IF users = {} THEN NoUser
     ELSE CHOOSE u \in users : \A v \in users : v.id <= u.id

user_add(e, email, password) ==
  LET id  == e.seq.reg + 1
      row == [id |-> id, email |-> email, hash |-> get_salted_hash(password)]
  IN [e |-> [e EXCEPT !.reg = @ \cup {row}, !.seq.reg = id],
      user |-> [id |-> id, email |-> email, hash |-> <<>>, deleted |-> FALSE]]

\* one statement: DELETE FROM registration WHERE id = .. RETURNING .. ; INSERT INTO user SELECT ..
approve_new_user(e, user_id) ==
  LET moved == {r \in e.reg : r.id = user_id}
  IN IF moved = {} THEN e
     ELSE LET r == CHOOSE m \in moved : TRUE
          IN [e EXCEPT !.reg = @ \ moved,
                       !.usr = @ \cup {[id |-> e.seq.usr + 1, email |-> r.email,
                                        hash |-> r.hash, deleted |-> FALSE]},
                       !.seq.usr = @ + 1]

prepare_user_fields(password) == get_salted_hash(password)

\* --------------------------------------------------------- controller/auth.py
\* Each *_fn is the undecorated body; its value is [e, result, code, exc]
\* where exc names the exception that leaves the body ("" when it returns).
Ret(e, result, code) == [e |-> e, result |-> result, code |-> code, exc |-> ""]
Exc(e, name, code)   == [e |-> e, result |-> <<>>, code |-> code, exc |-> name]

user_register_fn(e, email, password, mail_ok) ==
  IF user_get_by(e, "email", email, TRUE).id # 0 \/ user_get_by(e, "email", email, FALSE).id # 0
    THEN Ret(e, <<>>, ERR_USER_EMAIL_EXISTS)
  ELSE LET a == user_add(e, email, password)
           t == gen_newb_token(a.e, a.user)
       IN IF ~mail_ok THEN Exc(t.e, "MailError", ERR_OK)
          ELSE Ret(do_commit(send_mail(t.e, "invite", a.user, t.token)), <<>>, ERR_OK)

\* variant: the confirm token is left in place after the activation
user_activate_fn_keep(e, tkn) ==
  LET g == get_new_user_token(e, tkn)
  IN IF g.result = <<>> THEN Ret(e, <<>>, g.code)
     ELSE Ret(do_commit(approve_new_user(e, g.result[1].user_id)), <<>>, ERR_OK)

user_activate_fn(e, tkn) ==
  LET g == get_new_user_token(e, tkn)
  IN IF g.result = <<>> THEN Ret(e, <<>>, g.code)
     ELSE LET token_obj == g.result[1]
              e1 == approve_new_user(e, token_obj.user_id)
              d  == remove_new_user_tokens(e1, 0, token_obj.token, FALSE)
          IN Ret(do_commit(d.e), <<>>, ERR_OK)

\* variant: the deleted flag is not consulted
user_login_fn_noblock(e, email, password) ==
  IF user_get_by(e, "email", email, FALSE).id # 0 THEN Ret(e, <<>>, ERR_NO_ACTIVATION)
  ELSE LET user == user_get_by(e, "email", email, TRUE)
       IN IF user.id = 0 \/ ~check_salted_hash(password, user.hash)
            THEN Ret(e, <<>>, ERR_WRONG_LOGIN_PARAMS)
          ELSE LET e1 == tokens_delete(e, user.id, 0, 0, TRUE)
                   c  == tokens_create(e1, user.id, TRUE)
               IN Ret(c.e, <<c.token, user>>, ERR_OK)

\* variant: the rows the user already has are left in place
user_login_fn_append(e, email, password) ==
  IF user_get_by(e, "email", email, FALSE).id # 0 THEN Ret(e, <<>>, ERR_NO_ACTIVATION)
  ELSE LET user == user_get_by(e, "email", email, TRUE)
       IN IF user.id = 0 \/ ~check_salted_hash(password, user.hash)
            THEN Ret(e, <<>>, ERR_WRONG_LOGIN_PARAMS)
          ELSE IF user.deleted THEN Ret(e, <<>>, ERR_USER_BLOCKED)
          ELSE LET c == tokens_create(e, user.id, TRUE)
               IN Ret(c.e, <<c.token, user>>, ERR_OK)

user_login_fn(e, email, password) ==
  IF user_get_by(e, "email", email, FALSE).id # 0 THEN Ret(e, <<>>, ERR_NO_ACTIVATION)
  ELSE LET user == user_get_by(e, "email", email, TRUE)
       IN IF user.id = 0 \/ ~check_salted_hash(password, user.hash)
            THEN Ret(e, <<>>, ERR_WRONG_LOGIN_PARAMS)
          ELSE IF user.deleted THEN Ret(e, <<>>, ERR_USER_BLOCKED)
          ELSE LET e1 == tokens_delete(e, user.id, 0, 0, TRUE)
                   c  == tokens_create(e1, user.id, TRUE)
               IN Ret(c.e, <<c.token, user>>, ERR_OK)

user_refresh_fn(e, refresh_token) ==
  LET r == refresh_tokens(e, refresh_token, TRUE)
  IN IF r.exc # "" THEN r
     ELSE IF r.result = <<>> THEN Exc(r.e, "AttributeError", ERR_OK)
     ELSE LET tokens == r.result[1]
              user   == user_get_by(r.e, "id", tokens.user_id, TRUE)
          IN IF user.id = 0 THEN Ret(r.e, <<>>, ERR_AUTHORIZATION_FAILED)
             ELSE IF user.deleted THEN Ret(r.e, <<>>, ERR_USER_BLOCKED)
             ELSE Ret(r.e, <<tokens, user>>, ERR_OK)

\* variant: an address that matches no activated user is reported
user_forgot_email_fn_tell(e, email, mail_ok) ==
  LET user == user_get_by(e, "email", email, TRUE)
  IN IF user.id = 0 THEN Ret(e, <<>>, ERR_WRONG_LOGIN_PARAMS)
     ELSE LET t == gen_new_reset_token(e, user.id)
          IN IF ~mail_ok THEN Exc(t.e, "MailError", ERR_OK)
             ELSE Ret(do_commit(send_mail(t.e, "forgot", user, t.token)), <<>>, ERR_OK)

user_forgot_email_fn(e, email, mail_ok) ==
  LET user == user_get_by(e, "email", email, TRUE)
  IN IF user.id = 0 THEN Ret(e, <<>>, ERR_OK)
     ELSE LET t == gen_new_reset_token(e, user.id)
          IN IF ~mail_ok THEN Exc(t.e, "MailError", ERR_OK)
             ELSE Ret(do_commit(send_mail(t.e, "forgot", user, t.token)), <<>>, ERR_OK)

user_activation_email_fn(e, email, mail_ok) ==
  LET user == user_get_by(e, "email", email, FALSE)
  IN IF user.id = 0 THEN Ret(e, <<>>, ERR_OK)
     ELSE LET x == get_existing_confirm_token(e, user.id)
              t == IF x = <<>> THEN gen_newb_token(e, user) ELSE [e |-> e, token |-> x[1]]
          IN IF ~mail_ok THEN Exc(t.e, "MailError", ERR_OK)
             ELSE Ret(do_commit(send_mail(t.e, "invite", user, t.token)), <<>>, ERR_OK)

user_reset_fn(e, tkn, password, confirm) ==
  IF password # confirm THEN Ret(e, <<>>, ERR_PASSWORD_MISMATCH)
  ELSE LET g == get_password_reset_token(e, tkn)
       IN IF g.result = <<>> THEN Ret(e, <<>>, g.code)
          ELSE LET token_obj == g.result[1]
                   e1 == update_user(e, token_obj.user_id, prepare_user_fields(password))
                   d  == remove_password_reset_tokens(e1, 0, token_obj.token, TRUE)
               IN Ret(d.e, <<>>, ERR_OK)

\* variant: the pair is deleted without checking the access token
user_logout_fn_nocheck(e, access_token) ==
  Ret(tokens_delete(e, 0, access_token, 0, TRUE), <<>>, ERR_OK)

user_logout_fn(e, access_token) ==
  LET c == check_access_token(e, access_token, TRUE)
  IN IF c.exc # "" THEN c
     ELSE Ret(tokens_delete(c.e, 0, access_token, 0, TRUE), <<>>, ERR_OK)

user_register(e, email, password, mail_ok, raise_error) ==
  raise_controller_error(user_register_fn(e, email, password, mail_ok), raise_error)
user_activate(e, tkn, raise_error) ==
  raise_controller_error(user_activate_fn(e, tkn), raise_error)
user_login(e, email, password, raise_error) ==
  raise_controller_error(user_login_fn(e, email, password), raise_error)
user_refresh(e, refresh_token, raise_error) ==
  raise_controller_error(user_refresh_fn(e, refresh_token), raise_error)
user_forgot_email(e, email, mail_ok, raise_error) ==
  raise_controller_error(user_forgot_email_fn(e, email, mail_ok), raise_error)
user_activation_email(e, email, mail_ok, raise_error) ==
  raise_controller_error(user_activation_email_fn(e, email, mail_ok), raise_error)
user_reset(e, tkn, password, confirm, raise_error) ==
  raise_controller_error(user_reset_fn(e, tkn, password, confirm), raise_error)
user_logout(e, access_token, raise_error) ==
  raise_controller_error(user_logout_fn(e, access_token), raise_error)

\* ------------------------------------------------------------------ actions
\* One call runs to completion: the tables, generators and committed snapshot
\* become those the call leaves, and `last` records the call and its outcome.
NoLast == [op |-> "", arg |-> <<>>, raise_error |-> FALSE, exc |-> "", code |-> ERR_OK,
           result |-> <<>>, ncommit |-> 0, sent |-> <<>>]

\* what a successful call uses up: refresh_tokens its refresh value and the access
\* value paired with it, user_logout the access value, user_activate the token
Spends(op, arg, r) ==
  IF r.exc # "" \/ r.code # ERR_OK \/ arg = <<>> THEN {}
  ELSE IF op = "refresh_tokens"
    THEN {<<"refresh", arg[1]>>} \cup {<<"access", x.access>> : x \in {y \in token : y.refresh = arg[1]}}
  ELSE IF op = "user_logout" THEN {<<"access", arg[1]>>}
  ELSE IF op = "user_activate" /\ arg[1] # 0 THEN {<<"confirm", arg[1]>>}
  ELSE {}

Call(op, arg, raise_error, r) ==
  /\ ~r.e.ovf
  /\ tb_registration' = r.e.reg
  /\ tb_user' = r.e.usr
  /\ token' = r.e.tok
  /\ confirm_token' = r.e.ctk
  /\ seq' = r.e.seq
  /\ committed' = r.e.committed
  /\ last' = [op |-> op, arg |-> arg, raise_error |-> raise_error,
              exc |-> r.exc, code |-> r.code, result |-> r.result,
              ncommit |-> r.e.ncommit, sent |-> r.e.sent]
  /\ spent' = spent \cup Spends(op, arg, r)
  /\ UNCHANGED <<lim, now, drvvars, libvars>>

UserRegister(ES, PS, MS, RS) ==
  \E email \in ES, password \in PS, mail_ok \in MS, raise_error \in RS :
    Call("user_register", <<email, password>>, raise_error,
         user_register(Env, email, password, mail_ok, raise_error))

UserActivate(TS, RS) ==
  \E tkn \in TS, raise_error \in RS :
    Call("user_activate", <<tkn>>, raise_error, user_activate(Env, tkn, raise_error))

UserLogin(ES, PS, RS) ==
  \E email \in ES, password \in PS, raise_error \in RS :
    Call("user_login", <<email, password>>, raise_error,
         user_login(Env, email, password, raise_error))

UserRefresh(TS, RS) ==
  \E refresh_token \in TS, raise_error \in RS :
    Call("user_refresh", <<refresh_token>>, raise_error,
         user_refresh(Env, refresh_token, raise_error))

UserForgotEmail(ES, MS, RS) ==
  \E email \in ES, mail_ok \in MS, raise_error \in RS :
    Call("user_forgot_email", <<email>>, raise_error,
         user_forgot_email(Env, email, mail_ok, raise_error))

UserActivationEmail(ES, MS, RS) ==
  \E email \in ES, mail_ok \in MS, raise_error \in RS :
    Call("user_activation_email", <<email>>, raise_error,
         user_activation_email(Env, email, mail_ok, raise_error))

UserReset(TS, PS, RS) ==
  \E tkn \in TS, password \in PS, confirm \in PS, raise_error \in RS :
    Call("user_reset", <<tkn, password, confirm>>, raise_error,
         user_reset(Env, tkn, password, confirm, raise_error))

UserLogout(TS, RS) ==
  \E access_token \in TS, raise_error \in RS :
    Call("user_logout", <<access_token>>, raise_error,
         user_logout(Env, access_token, raise_error))

RefreshTokens(TS, RS) ==
  \E refresh \in TS, raise_error \in RS :
    Call("refresh_tokens", <<refresh>>, raise_error, refresh_tokens(Env, refresh, raise_error))

CheckAccessToken(TS, RS) ==
  \E access \in TS, raise_error \in RS :
    Call("check_access_token", <<access>>, raise_error,
         check_access_token(Env, access, raise_error))

RemoveRabbidz(AS) ==
  \E allowed_count \in AS :
    Call("remove_rabbidz", <<allowed_count>>, FALSE, remove_rabbidz(Env, allowed_count))

\* execute_query(conn_id, "INSERT INTO registration ...", commit=.., rollback=..)
\* in a process whose flag PG_WITHOUT_COMMIT is input.without_commit
ExecuteInsert ==
  \E email \in {"a@x", "b@x"}, commit \in BOOLEAN, rollback \in BOOLEAN :
    /\ seq.reg < MaxStatements
    /\ Call("execute_query", <<commit, rollback>>, FALSE,
            Ret(execute_query_end(user_add(Env, email, "p").e, commit, rollback, input.without_commit),
                <<>>, ERR_OK))

\* An administrator flags an activated account deleted ("removal" is the flag).
admin_block_user(e, uid) ==
  [e EXCEPT !.usr = {IF u.id = uid THEN [u EXCEPT !.deleted = TRUE] ELSE u : u \in e.usr}]

AdminBlockUser ==
  \E u \in tb_user :
    /\ ~u.deleted
    /\ Call("admin_block_user", <<u.id>>, FALSE,
            Ret(do_commit(admin_block_user(Env, u.id)), <<>>, ERR_OK))

Tick ==
  /\ now < lim.time
  /\ now' = now + 1
  /\ last' = [NoLast EXCEPT !.op = "tick"]
  /\ UNCHANGED <<tb_registration, tb_user, token, confirm_token, seq, lim, committed, spent, drvvars, libvars>>

MaxSessions == 3     \* users holding a session pair

\* the pair tokens_create made for user u at time t
PairOf(u, t) == [user_id |-> u, refresh |-> 2 * u - 1, refresh_expiration |-> t + TTL_REFRESH_TOKEN,
                 access  |-> 2 * u,     access_expiration  |-> t + TTL_ACCESS_TOKEN]
\* the committed token tables of up to MaxSessions users who logged in at times 0..MaxTime
TokenTables ==
  {{PairOf(u, at[u]) : u \in us} : us \in SUBSET (1..MaxSessions), at \in [1..MaxSessions -> 0..MaxTime]}

\* ------------------------------------------ refresh_tokens, statement by statement
\* Two callers run refresh_tokens(conn_id, refresh), each on a connection of
\* its own at the server's READ COMMITTED default: every statement sees what
\* is committed when it runs, and tokens_delete and tokens_create commit.
Callers == {1, 2}
NoCall  == [pc |-> "done", refresh |-> 0, row |-> <<>>, code |-> ERR_OK, result |-> <<>>]
NoRace  == [p \in Callers |-> NoCall]
StartRace(refresh) == [p \in Callers |-> [NoCall EXCEPT !.pc = "select", !.refresh = refresh]]

RaceFrame == UNCHANGED <<tb_registration, tb_user, confirm_token, lim, last, spent, drvvars,
                         cfgvars, n_params, input, lib_last, errvars, logvars, cronvars, tabvars>>

\* SELECT user_id, refresh_expiration FROM token WHERE refresh = %s
RaceSelect(p) ==
  /\ race[p].pc = "select"
  /\ LET rows == {r \in token : r.refresh = race[p].refresh}
     IN race' = [race EXCEPT ![p] =
                   IF rows = {} THEN [@ EXCEPT !.pc = "done", !.code = ERR_REFRESH_TOKEN_EXPIRED]
                   ELSE [@ EXCEPT !.pc = "delete", !.row = <<CHOOSE r \in rows : TRUE>>]]
  /\ UNCHANGED <<token, seq, committed, now>>
  /\ RaceFrame

\* tokens_delete(conn_id, refresh=refresh)
RaceDelete(p) ==
  /\ race[p].pc = "delete"
  /\ LET e == tokens_delete(Env, 0, 0, race[p].refresh, TRUE)
     IN /\ token' = e.tok
        /\ committed' = e.committed
  /\ race' = [race EXCEPT ![p].pc = "create"]
  /\ UNCHANGED <<seq, now>>
  /\ RaceFrame

\* if datetime.utcnow() < expiration: return tokens_create(conn_id, user_id), ERR_OK
RaceCreate(p) ==
  /\ race[p].pc = "create"
  /\ IF now < race[p].row[1].refresh_expiration
       THEN LET c == tokens_create(Env, race[p].row[1].user_id, TRUE)
            IN /\ ~c.e.ovf
               /\ token' = c.e.tok
               /\ seq' = c.e.seq
               /\ committed' = c.e.committed
               /\ race' = [race EXCEPT ![p] = [@ EXCEPT !.pc = "done", !.code = ERR_OK, !.result = <<c.token>>]]
       ELSE /\ race' = [race EXCEPT ![p] = [@ EXCEPT !.pc = "done", !.code = ERR_REFRESH_TOKEN_EXPIRED]]
            /\ UNCHANGED <<token, seq, committed>>
  /\ UNCHANGED now
  /\ RaceFrame

RaceTick ==
  /\ now < lim.time
  /\ now' = now + 1
  /\ UNCHANGED <<token, seq, committed, race>>
  /\ RaceFrame

InitAuth(l) ==
  /\ tb_registration = {}
  /\ tb_user = {}
  /\ token = {}
  /\ confirm_token = {}
  /\ seq = [reg |-> 0, usr |-> 0, tok |-> 0, ctk |-> 0]
  /\ lim = l
  /\ committed = [reg |-> {}, usr |-> {}, tok |-> {}, ctk |-> {}]
  /\ now = 0
  /\ last = NoLast
  /\ spent = {}


\* ===========================================================================
\*        Part II: postgres_drv connection pool, __db_method, sqlwerks
\* ===========================================================================
MaxSock == 2      \* physical connections opened in one behaviour

BaseIds   == {"db"}
Settings  == {"s1"}                \* host/port/dbname/user/password taken together
ChanNames == {"ev", "e-v"}
FailResults == {"None", "False"}   \* fail_result absent, or the (falsy, not None) value False

\* re.sub(RE_ALPHA_DIGIT_, "", channel): drop every character outside [A-Za-z0-9_]
sanitize(channel) == IF channel = "e-v" THEN "ev" ELSE channel

event_id(conn_id) == conn_id \o "_event"
ConnIds == BaseIds \cup {event_id(b) : b \in BaseIds}

\* the pool and the server as one call sees them
Drv == [cfg |-> configuration, conns |-> connections, chans |-> channels,
        socks |-> sockets, up |-> server_up, ovf |-> FALSE]

Has(f, k) == k \in DOMAIN f
Put(f, k, v) == [x \in DOMAIN f \cup {k} |-> IF x = k THEN v ELSE f[x]]
Drop(f, k) == [x \in DOMAIN f \ {k} |-> f[x]]

\* outcome of a step that may raise: the pool after it, its value, and the
\* exception class and message when it raises (exc = "" when it does not)
Ok(d, value)      == [d |-> d, value |-> value, exc |-> "", msg |-> ""]
Raise(d, exc, msg) == [d |-> d, value |-> "None", exc |-> exc, msg |-> msg]

\* one statement on the physical connection h: what the driver raises, if anything
statement_exc(d, h, cancel) ==
  IF d.socks[h].closed THEN <<"InterfaceError", "connection already closed">>
  ELSE IF ~d.socks[h].alive THEN <<"OperationalError", "server closed the connection unexpectedly">>
  ELSE IF cancel THEN <<"QueryCanceledError", "canceling statement due to statement timeout">>
  ELSE <<"", "">>

\* a physical connection after conn.close(): nothing of it can be used any more
ClosedSocket == [alive |-> FALSE, closed |-> TRUE, iso |-> "None", tx |-> "idle", listen |-> {}]

\* variant: the connection is closed but stays in the pool (get instead of pop)
_close_connection_stay(d, conn_id) ==
  IF Has(d.conns, conn_id) THEN [d EXCEPT !.socks[d.conns[conn_id]] = ClosedSocket] ELSE d

_close_connection(d, conn_id) ==
  IF Has(d.conns, conn_id)
    THEN [d EXCEPT !.conns = Drop(@, conn_id), !.socks[d.conns[conn_id]] = ClosedSocket]
    ELSE d

_connect_to_db(d, conn_id) ==
  IF Has(d.conns, conn_id) THEN Ok(d, d.conns[conn_id])
  ELSE IF ~Has(d.cfg, conn_id) THEN Raise(d, "KeyError", "'" \o conn_id \o "'")
  ELSE IF ~d.up THEN Raise(d, "OperationalError", "could not connect to server")
  ELSE LET h  == Len(d.socks) + 1
           so == [alive |-> TRUE, closed |-> FALSE,
                  iso |-> d.cfg[conn_id].isolation_level,
                  tx |-> "idle",
                  listen |-> {sanitize(c) : c \in (IF Has(d.chans, conn_id) THEN d.chans[conn_id] ELSE {})}]
       IN Ok([d EXCEPT !.socks = Append(@, so), !.conns = Put(@, conn_id, h),
                       !.ovf = @ \/ (h > MaxSock)], h)

\* __db_method.core.  The caller hands in m, the outcome of
\*   conn = _connect_to_db(conn_id); method(conn, **kwargs);
\* core() is what becomes of it with and without fail_result.
\* `inner` keeps the exception (class, message) met inside, caught or not.
db_method(conn_id, fail_result, m) ==
  IF fail_result # "None"
    THEN IF m.exc # ""
           THEN [d |-> _close_connection(m.d, conn_id), exc |-> "", msg |-> "",
                 result |-> fail_result, err |-> m.exc \o ": " \o m.msg,
                 inner |-> <<m.exc, m.msg>>]
           ELSE [d |-> m.d, exc |-> "", msg |-> "", result |-> m.value, err |-> "None",
                 inner |-> <<"", "">>]
    ELSE IF m.exc # ""
           THEN [d |-> m.d, exc |-> m.exc, msg |-> m.msg, result |-> "None", err |-> "None",
                 inner |-> <<m.exc, m.msg>>]
           ELSE [d |-> m.d, exc |-> "", msg |-> "", result |-> m.value, err |-> "None",
                 inner |-> <<"", "">>]

\* the statement of a method on connection h, and what it leaves of the transaction
run_statement(d, h, cancel, value) ==
  LET x == statement_exc(d, h, cancel)
  IN IF x[1] # "" THEN Raise(d, x[1], x[2])
     ELSE Ok([d EXCEPT !.socks[h].tx = IF d.socks[h].iso = "autocommit" THEN "idle" ELSE "open"], value)

execute_query(d, conn_id, fail_result, cancel, commit, rollback) ==
  LET M(dd, h) ==
        LET r == run_statement(dd, h, cancel, "data")
        IN IF r.exc # "" THEN r
           ELSE IF commit /\ ~PG_WITHOUT_COMMIT THEN Ok([r.d EXCEPT !.socks[h].tx = "idle"], "data")
           ELSE IF rollback THEN Ok([r.d EXCEPT !.socks[h].tx = "idle"], "data")
           ELSE r
      c == _connect_to_db(d, conn_id)
  IN db_method(conn_id, fail_result, IF c.exc # "" THEN c ELSE M(c.d, c.value))

\* query is <<"LISTEN", c>>, <<"UNLISTEN", c>> (c already sanitized) or <<"SQL">>
execute_query_light(d, conn_id, fail_result, cancel, query) ==
  LET M(dd, h) ==
        LET r == run_statement(dd, h, cancel, "True")
        IN IF r.exc # "" THEN r
           ELSE IF query[1] = "LISTEN" THEN Ok([r.d EXCEPT !.socks[h].listen = @ \cup {query[2]}], "True")
           ELSE IF query[1] = "UNLISTEN" THEN Ok([r.d EXCEPT !.socks[h].listen = @ \ {query[2]}], "True")
           ELSE r
      c == _connect_to_db(d, conn_id)
  IN db_method(conn_id, fail_result, IF c.exc # "" THEN c ELSE M(c.d, c.value))

execute_copy(d, conn_id, fail_result, cancel, commit) ==
  LET M(dd, h) ==
        LET r == run_statement(dd, h, cancel, "True")
        IN IF r.exc # "" THEN r
           ELSE IF commit /\ ~PG_WITHOUT_COMMIT THEN Ok([r.d EXCEPT !.socks[h].tx = "idle"], "True")
           ELSE r
      c == _connect_to_db(d, conn_id)
  IN db_method(conn_id, fail_result, IF c.exc # "" THEN c ELSE M(c.d, c.value))

\* SET statement_timeout = ..: a statement; the setting itself is read by the server only
set_statement_timeout(d, conn_id, fail_result, cancel) ==
  LET M(dd, h) == run_statement(dd, h, cancel, "None")
      c == _connect_to_db(d, conn_id)
  IN db_method(conn_id, fail_result, IF c.exc # "" THEN c ELSE M(c.d, c.value))

\* _get_events: conn.poll() and the drained notifications (none are pending in the model)
get_events_(d, conn_id, fail_result) ==
  LET M(dd, h) ==
        LET x == statement_exc(dd, h, FALSE)
        IN IF x[1] # "" THEN Raise(dd, x[1], x[2]) ELSE Ok(dd, "events")
      c == _connect_to_db(d, conn_id)
  IN db_method(conn_id, fail_result, IF c.exc # "" THEN c ELSE M(c.d, c.value))

\* sqlwerks.execute_query_env inside sqlwerks.timed_statement
execute_query_env_fn(d, conn_id, fail_result, cancel, commit, rollback) ==
  LET q == execute_query(d, conn_id, fail_result, cancel, commit, rollback)
  IN IF q.exc # "" THEN q
     ELSE IF q.err # "None" /\ fail_result # "None"
       THEN [q EXCEPT !.result = <<fail_result, "None">>]
       ELSE q

timed_statement(r, args) ==
  IF r.exc = "QueryCanceledError"
    THEN [r EXCEPT !.exc = "PGStatementTimeout", !.result = "None"] @@ [params |-> args]
    ELSE r @@ [params |-> <<>>]

execute_query_env(d, conn_id, fail_result, cancel, commit, rollback) ==
  timed_statement(execute_query_env_fn(d, conn_id, fail_result, cancel, commit, rollback),
                  <<conn_id, fail_result, commit, rollback>>)

_add_connection(d, conn_id, kwargs) == [d EXCEPT !.cfg = Put(@, conn_id, kwargs)]

_get_event_connection_id(d, conn_id) ==
  LET event_conn_id == event_id(conn_id)
  IN IF Has(d.cfg, event_conn_id) THEN Ok(d, event_conn_id)
     ELSE IF ~Has(d.cfg, conn_id) THEN Raise(d, "KeyError", "'" \o conn_id \o "'")
     ELSE Ok(_add_connection(d, event_conn_id,
                             [d.cfg[conn_id] EXCEPT !.isolation_level = "autocommit"]),
             event_conn_id)

_add_event_listener(d, conn_id, channel) ==
  execute_query_light(d, conn_id, "False", FALSE, <<"LISTEN", sanitize(channel)>>)

\* variant: settings that differ from the stored ones replace them
add_connection_overwrite(d, conn_id, kwargs) == Ok(_add_connection(d, conn_id, kwargs), "None")

add_connection(d, conn_id, kwargs) ==
  IF Has(d.cfg, conn_id)
    THEN IF d.cfg[conn_id] # kwargs THEN Raise(d, "ValueError", conn_id) ELSE Ok(d, "None")
    ELSE Ok(_add_connection(d, conn_id, kwargs), "None")

close_connection(d, conn_id, event_conn) ==
  LET d1 == _close_connection(d, conn_id)
  IN IF ~event_conn THEN Ok(d1, "None")
     ELSE LET g == _get_event_connection_id(d1, conn_id)
          IN IF g.exc # "" THEN g ELSE Ok(_close_connection(g.d, g.value), "None")

add_event_listener(d, conn_id, channel) ==
  LET g == _get_event_connection_id(d, conn_id)
  IN IF g.exc # "" THEN g @@ [result |-> "None", err |-> "None", inner |-> <<g.exc, g.msg>>]
     ELSE LET old == IF Has(g.d.chans, g.value) THEN g.d.chans[g.value] ELSE {}
              d1  == [g.d EXCEPT !.chans = Put(@, g.value, old \cup {channel})]
          IN _add_event_listener(d1, g.value, channel)

remove_event_listener(d, conn_id, channel) ==
  LET g == _get_event_connection_id(d, conn_id)
  IN IF g.exc # "" THEN g @@ [result |-> "None", err |-> "None", inner |-> <<g.exc, g.msg>>]
     ELSE LET old == IF Has(g.d.chans, g.value) THEN g.d.chans[g.value] ELSE {}
              d1  == [g.d EXCEPT !.chans = Put(@, g.value, old \ {channel})]
          IN execute_query_light(d1, g.value, "False", FALSE, <<"UNLISTEN", sanitize(channel)>>)

generate_event(d, conn_id, channel) ==
  LET g == _get_event_connection_id(d, conn_id)
  IN IF g.exc # "" THEN g @@ [result |-> "None", err |-> "None", inner |-> <<g.exc, g.msg>>]
     ELSE execute_query_light(g.d, g.value, "False", FALSE, <<"NOTIFY", sanitize(channel)>>)

get_events(d, conn_id) ==
  LET g == _get_event_connection_id(d, conn_id)
  IN IF g.exc # "" THEN g @@ [result |-> "None", err |-> "None", inner |-> <<g.exc, g.msg>>]
     ELSE get_events_(g.d, g.value, "[]")

pg_forget_connection(d, conn_id, event_conn) ==
  LET c == close_connection(d, conn_id, event_conn)
  IN IF c.exc # "" THEN c
     ELSE IF ~Has(c.d.cfg, conn_id) THEN Raise(c.d, "KeyError", "'" \o conn_id \o "'")
     ELSE Ok([c.d EXCEPT !.cfg = Drop(@, conn_id)], "None")

\* every pooled connection is closed (an exception of close_connection is swallowed)
reset_connections(d) ==
  [d EXCEPT !.conns = <<>>,
            !.socks = [h \in DOMAIN d.socks |->
                         IF \E c \in DOMAIN d.conns : d.conns[c] = h THEN ClosedSocket ELSE d.socks[h]]]

reset_pools(d) ==
  Ok([reset_connections([d EXCEPT !.cfg = <<>>]) EXCEPT !.chans = <<>>], "None")

\* ------------------------------------------------------------------ actions
DrvCall(op, conn_id, fail_result, args, r) ==
  /\ ~r.d.ovf
  /\ configuration' = r.d.cfg
  /\ connections' = r.d.conns
  /\ channels' = r.d.chans
  /\ sockets' = r.d.socks
  /\ server_up' = r.d.up
  /\ drv_last' = [op |-> op, conn_id |-> conn_id, fail_result |-> fail_result, args |-> args,
                  exc |-> r.exc, result |-> r.result, err |-> r.err, inner |-> r.inner,
                  params |-> IF "params" \in DOMAIN r THEN r.params ELSE <<>>]
  /\ UNCHANGED <<authvars, libvars>>

\* a call that is not a decorated primitive: its result record has no err / inner
Plain(r) == [d |-> r.d, exc |-> r.exc, msg |-> r.msg, result |-> r.value,
             err |-> "None", inner |-> <<r.exc, r.msg>>]

TxFlags == {<<FALSE, FALSE>>, <<TRUE, FALSE>>, <<FALSE, TRUE>>}

AddConnection ==
  \E conn_id \in BaseIds, st \in Settings, iso \in {"None", "autocommit"} :
    DrvCall("add_connection", conn_id, "None", <<st, iso>>,
            Plain(add_connection(Drv, conn_id,
                    [settings |-> st, isolation_level |-> iso, statement_timeout |-> "None"])))

CloseConnection ==
  \E conn_id \in ConnIds, event_conn \in BOOLEAN :
    DrvCall("close_connection", conn_id, "None", <<event_conn>>,
            Plain(close_connection(Drv, conn_id, event_conn)))

ExecuteQuery ==
  \E conn_id \in ConnIds, fail_result \in FailResults, cancel \in BOOLEAN, tx \in TxFlags :
    DrvCall("execute_query", conn_id, fail_result, <<tx[1], tx[2]>>,
            execute_query(Drv, conn_id, fail_result, cancel, tx[1], tx[2]))

ExecuteQueryLight ==
  \E conn_id \in ConnIds, fail_result \in FailResults, cancel \in BOOLEAN :
    DrvCall("execute_query_light", conn_id, fail_result, <<>>,
            execute_query_light(Drv, conn_id, fail_result, cancel, <<"SQL">>))

ExecuteCopy ==
  \E conn_id \in ConnIds, fail_result \in FailResults, cancel \in BOOLEAN, commit \in BOOLEAN :
    DrvCall("execute_copy", conn_id, fail_result, <<>>,
            execute_copy(Drv, conn_id, fail_result, cancel, commit))

SetStatementTimeout ==
  \E conn_id \in ConnIds, fail_result \in FailResults, cancel \in BOOLEAN :
    DrvCall("set_statement_timeout", conn_id, fail_result, <<>>,
            set_statement_timeout(Drv, conn_id, fail_result, cancel))

GetEvents_ ==
  \E conn_id \in ConnIds, fail_result \in FailResults :
    DrvCall("_get_events", conn_id, fail_result, <<>>, get_events_(Drv, conn_id, fail_result))

ExecuteQueryEnv ==
  \E conn_id \in ConnIds, fail_result \in FailResults, cancel \in BOOLEAN, tx \in TxFlags :
    DrvCall("execute_query_env", conn_id, fail_result, <<tx[1], tx[2]>>,
            execute_query_env(Drv, conn_id, fail_result, cancel, tx[1], tx[2]))

AddEventListener ==
  \E conn_id \in BaseIds, channel \in ChanNames :
    DrvCall("add_event_listener", conn_id, "False", <<channel>>,
            add_event_listener(Drv, conn_id, channel))

RemoveEventListener ==
  \E conn_id \in BaseIds, channel \in ChanNames :
    DrvCall("remove_event_listener", conn_id, "False", <<channel>>,
            remove_event_listener(Drv, conn_id, channel))

PgForgetConnection ==
  \E conn_id \in ConnIds, event_conn \in BOOLEAN :
    DrvCall("pg_forget_connection", conn_id, "None", <<event_conn>>,
            Plain(pg_forget_connection(Drv, conn_id, event_conn)))

ResetPools ==
  DrvCall("reset_pools", "", "None", <<>>, Plain(reset_pools(Drv)))

GenerateEvent ==
  \E conn_id \in BaseIds, channel \in ChanNames :
    DrvCall("generate_event", conn_id, "False", <<channel>>, generate_event(Drv, conn_id, channel))

GetEvents ==
  \E conn_id \in BaseIds :
    DrvCall("get_events", conn_id, "[]", <<>>, get_events(Drv, conn_id))

NoDrvLast == [op |-> "", conn_id |-> "", fail_result |-> "None", args |-> <<>>, exc |-> "",
              result |-> "None", err |-> "None", inner |-> <<"", "">>, params |-> <<>>]

\* the server goes away: every open physical connection is lost
ServerDown ==
  /\ server_up
  /\ server_up' = FALSE
  /\ sockets' = [h \in DOMAIN sockets |-> [sockets[h] EXCEPT !.alive = FALSE]]
  /\ drv_last' = [NoDrvLast EXCEPT !.op = "server_down"]
  /\ UNCHANGED <<configuration, connections, channels, authvars, libvars>>

ServerUp ==
  /\ ~server_up
  /\ server_up' = TRUE
  /\ drv_last' = [NoDrvLast EXCEPT !.op = "server_up"]
  /\ UNCHANGED <<configuration, connections, channels, sockets, authvars, libvars>>

InitDrv ==
  /\ configuration = <<>>
  /\ connections = <<>>
  /\ channels = <<>>
  /\ sockets = <<>>
  /\ server_up = TRUE
  /\ drv_last = NoDrvLast

\* ===========================================================================
\* Part III: helper libraries
\* ===========================================================================
MaxLeaves == 3     \* leaves of a where-expression
MaxParams == 2     \* Param.n_params up to which where() is called
MaxId     == 15    \* ids hashed: the MaxId + 1 lowest and the MaxId + 1 highest below base
MaxRows   == 2     \* rows of a Tabular
MaxTables == 2     \* tables aggregate_filter_select searches

NoLibLast == [op |-> "", args |-> <<>>, exc |-> "", result |-> "None", queries |-> <<>>]

\* one call of a library function; r is [exc, result], with the queries the
\* call sent to the database when it sends any
LibCall(op, args, r) ==
  /\ lib_last' = [op |-> op, args |-> args, exc |-> r.exc, result |-> r.result,
                  queries |-> IF "queries" \in DOMAIN r THEN r.queries ELSE <<>>]
  /\ UNCHANGED <<authvars, drvvars>>

\* ------------------------------------------------------- configuration.py
DEFAULT_SECTION == "common"
CfgSections     == {"myscript", "envsection", "common"}
CfgValues       == {"", "c", "e", "m"}
CfgFiles        == {<<>>, [common |-> [k |-> "c"]]}

\* Python truthiness of a string or None, and the value of `a or b`
Truthy(v) == v \notin {"None", ""}
Or(a, b) == IF Truthy(a) THEN a ELSE b

_cfg_section(c, section_name) ==
  IF section_name \in DOMAIN c._cfg THEN c._cfg[section_name] ELSE <<>>

\* an absent section and an empty one are both falsy
_cfg_value(c, value_name, section_name) ==
  LET section == _cfg_section(c, section_name)
  IN IF DOMAIN section # {} /\ value_name \in DOMAIN section
       THEN section[value_name] ELSE "None"

_init_service_props(c) ==
  [c EXCEPT !._sec_environment =
     Or(_cfg_value(c, "ENVIRONMENT_SECTION", "common"), DEFAULT_SECTION)]

reload(c, files) == _init_service_props([c EXCEPT !._cfg = files])

ConfigEnv(files) == reload([_cfg |-> <<>>, _sec_environment |-> "None"], files)

get_value(c, value_name, section_name, cast, default) ==
  LET value == Or(Or(_cfg_value(c, value_name, section_name),
                     _cfg_value(c, value_name, c._sec_environment)),
                  _cfg_value(c, value_name, DEFAULT_SECTION))
  IN IF value = "None" THEN [exc |-> "", result |-> default]
     ELSE IF cast = "bool"
       THEN IF value = "true" THEN [exc |-> "", result |-> "True"]
            ELSE IF value = "false" THEN [exc |-> "", result |-> "False"]
            ELSE [exc |-> "ValueError", result |-> "None"]
       ELSE [exc |-> "", result |-> value]

patch_cfg(c, patch) ==
  LET content(s) ==
        LET old == IF s \in DOMAIN c._cfg THEN c._cfg[s] ELSE <<>>
            new == IF s \in DOMAIN patch THEN patch[s] ELSE <<>>
        IN [k \in DOMAIN old \cup DOMAIN new |-> IF k \in DOMAIN new THEN new[k] ELSE old[k]]
  IN _init_service_props(
       [c EXCEPT !._cfg = [s \in DOMAIN c._cfg \cup DOMAIN patch |-> content(s)]])

GetValue ==
  \E section_name \in CfgSections \cup {"other"}, cast \in {"None", "bool"}, default \in {"None", "d"} :
    /\ LibCall("get_value", <<"k", section_name, cast, default>>,
               get_value(_cfg_obj, "k", section_name, cast, default))
    /\ UNCHANGED <<cfgvars, but_cfg>>

PatchCfg ==
  \E skv \in (CfgSections \X {"k"} \X CfgValues)
               \cup ({DEFAULT_SECTION} \X {"ENVIRONMENT_SECTION"} \X {"", "envsection"}) :
    /\ _cfg_obj' = patch_cfg(_cfg_obj, skv[1] :> (skv[2] :> skv[3]))
    /\ LibCall("patch_cfg", skv, [exc |-> "", result |-> "None"])
    /\ UNCHANGED <<etc_backend_cfg, but_cfg>>

CfgReload ==
  /\ _cfg_obj' = reload(_cfg_obj, etc_backend_cfg)
  /\ LibCall("cfg_reload", <<>>, [exc |-> "", result |-> "None"])
  /\ UNCHANGED <<etc_backend_cfg, but_cfg>>

InitConfigEnv(files) ==
  /\ etc_backend_cfg \in files
  /\ _cfg_obj = ConfigEnv(etc_backend_cfg)

\* ------------------------------------------------------- builder/where.py
\* An expression is [sql, params, op, prefix]: sql is the rendered text as a
\* sequence of tokens, params the dict of bound values, prefix the
\* _param_name_prefix.  A value is a string; "None" is None, "()" the empty tuple.
OP_MAP(op) ==
  CASE op = "IN" -> "in" [] op = "NOT IN" -> "notin" [] op = "=" -> "eq"
    [] op = "<" -> "lt" [] op = "LIKE" -> "like" [] op = "ILIKE" -> "ilike"
    [] op = "@>" -> "contains"

Expr(sql, params, op) == [sql |-> sql, params |-> params, op |-> op, prefix |-> "autogen"]
Param(name, value) == Expr(<<"%(" \o name \o ")s">>, name :> value, "unary")
Field(name) == [sql |-> <<name>>, params |-> <<>>, op |-> "unary", prefix |-> name]
EmptyExpr == Expr(<<>>, <<>>, "empty")
Merged(p1, p2) == [k \in DOMAIN p1 \cup DOMAIN p2 |-> IF k \in DOMAIN p2 THEN p2[k] ELSE p1[k]]
Par(e, yes) == IF yes THEN <<"(">> \o e.sql \o <<")">> ELSE e.sql

\* _generate_param_expr without the running index in the name
_generate_param_expr_noidx(self, op, other, n) ==
  [e |-> Param(self.prefix \o "-" \o OP_MAP(op), other), n |-> n + 1]

\* the functions below that may create a Param take Param.n_params as n and
\* return the expression with the new value of the counter: [e, n]
_generate_param_expr(self, op, other, n) ==
  [e |-> Param(self.prefix \o "-" \o OP_MAP(op) \o "-" \o ToString(n + 1), other), n |-> n + 1]

\* _prepare_other binding None like any other value
_prepare_other_bind(self, op, other, n) ==
  IF other = "()" THEN [e |-> Expr(<<>>, <<>>, "emptytuple"), n |-> n]
  ELSE _generate_param_expr(self, op, other, n)

_prepare_other(self, op, other, n) ==
  IF other = "None" THEN [e |-> EmptyExpr, n |-> n]
  ELSE IF other = "()" THEN [e |-> Expr(<<>>, <<>>, "emptytuple"), n |-> n]
  ELSE _generate_param_expr(self, op, other, n)

RECURSIVE compose_parts(_, _, _)
compose_parts(self, op, other) ==
  IF self.op = "empty" /\ other.op = "empty" THEN EmptyExpr
  ELSE IF self.op = "empty" \/ other.op = "empty"
    THEN LET replace_expr == Expr(<<IF op = "AND" THEN "TRUE" ELSE "FALSE">>, <<>>, op)
             result_expr  == IF self.op = "empty" THEN compose_parts(replace_expr, op, other)
                             ELSE compose_parts(self, op, replace_expr)
         IN Expr(result_expr.sql, Merged(self.params, other.params), op)
    ELSE LET left_par  == self.op = "raw" \/ {self.op, op} = {"AND", "OR"}
             right_par == other.op = "raw" \/ {other.op, op} = {"AND", "OR"}
         IN Expr(Par(self, left_par) \o <<op>> \o Par(other, right_par),
                 Merged(self.params, other.params), op)

compose_in(self, op, other_, n) ==
  LET o == _prepare_other(self, op, other_, n)
  IN IF o.e.op = "empty" THEN [e |-> EmptyExpr, n |-> o.n]
     ELSE IF o.e.op = "emptytuple"
       THEN [e |-> IF op = "IN" THEN Expr(<<"FALSE">>, <<>>, "raw")
                   ELSE Expr(self.sql \o <<"IS NOT NULL">>, <<>>, "raw"), n |-> o.n]
     ELSE [e |-> Expr(self.sql \o <<op>> \o o.e.sql, o.e.params, op), n |-> o.n]

compose_cmp(self, op, other_, n) ==
  LET o == _prepare_other(self, op, other_, n)
  IN IF o.e.op = "empty" THEN [e |-> EmptyExpr, n |-> o.n]
     ELSE [e |-> Expr(self.sql \o <<op>> \o o.e.sql, o.e.params, op), n |-> o.n]

\* An expression function is a tree: a leaf [field, cmp, value] stands for
\* t.field <cmp> value, a node [op, l, r] for l & r or l | r.  Python
\* evaluates the operands left to right.
NoExprFunc == [none |-> TRUE]
IsLeaf(t) == "cmp" \in DOMAIN t
RECURSIVE expr_func(_, _)
expr_func(t, n) ==
  IF IsLeaf(t)
    THEN IF t.cmp \in {"IN", "NOT IN"} THEN compose_in(Field(t.field), t.cmp, t.value, n)
         ELSE compose_cmp(Field(t.field), t.cmp, t.value, n)
    ELSE LET l == expr_func(t.l, n)
             r == expr_func(t.r, l.n)
         IN [e |-> compose_parts(l.e, t.op, r.e), n |-> r.n]

where(f, n) ==
  LET true == <<<<"TRUE">>, <<>>>>
  IN IF f = NoExprFunc THEN [exc |-> "", result |-> true, n |-> n]
     ELSE LET x == expr_func(f, n)
          IN [exc |-> "", n |-> x.n,
              result |-> IF x.e.op = "empty" THEN true ELSE <<x.e.sql, x.e.params>>]

\* the expression functions with exactly k leaves drawn from leaves
RECURSIVE TreesOf(_, _)
TreesOf(leaves, k) ==
  IF k = 1 THEN leaves
  ELSE UNION {{[op |-> o, l |-> a, r |-> b] :
                 o \in {"AND", "OR"}, a \in TreesOf(leaves, i), b \in TreesOf(leaves, k - i)} :
              i \in 1..(k - 1)}

ExprFuncs(leaves) == {NoExprFunc} \cup UNION {TreesOf(leaves, k) : k \in 1..MaxLeaves}

Where ==
  /\ n_params < MaxParams
  /\ LET r == where(input, n_params)
     IN /\ n_params' = r.n
        /\ LibCall("where", <<input>>, r)
  /\ UNCHANGED but_where

\* --------------------------------------------------------- helper/hashid.py
\* Python integers are unbounded: products are taken by doubling so that no
\* intermediate value leaves the range of the checker's integers.
RECURSIVE MulMod(_, _, _)
MulMod(a, b, m) ==
  IF a = 0 \/ b = 0 THEN 0 ELSE (2 * MulMod(a, b \div 2, m) + (b % 2) * a) % m

\* pow(b, e, m) by squaring, from the lowest bit of e up: acc is the product
\* of the powers taken so far, sq the current square (the comparisons with 0
\* have both evaluated at every step)
RECURSIVE pow_from(_, _, _, _)
pow_from(acc, sq, e, m) ==
  IF e = 0 \/ acc < 0 \/ sq < 0 THEN acc
  ELSE pow_from(IF e % 2 = 1 THEN MulMod(acc, sq, m) ELSE acc, MulMod(sq, sq, m), e \div 2, m)

pow(b, e, m) == pow_from(1 % m, b % m, e, m)

RECURSIVE Xor(_, _)
Xor(a, b) ==
  IF a = 0 THEN b
  ELSE IF b = 0 THEN a
  ELSE 2 * Xor(a \div 2, b \div 2) + ((a + b) % 2)

power  == 23
golden == 618        \* 0.618, in thousandths
base   == 2 ^ power
half   == (power + 1) \div 2

\* math.floor(base * golden) // 2 * 2 + 1
multiplier ==
  ((((base \div 1000) * golden + ((base % 1000) * golden) \div 1000) \div 2) * 2) + 1

\* the multiplier itself in the place of its inverse
inverse_same == multiplier

inverse == pow(multiplier, base - 1, 2 * base)

shuffle(x, mult) ==
  LET n  == x \div base
      x0 == x % base
      x1 == MulMod(Xor(x0 \div (2 ^ half), x0), mult, base)
      x2 == MulMod(Xor(x1 \div (2 ^ half), x1), mult, base)
      x3 == Xor(x2 \div (2 ^ half), x2)
  IN x3 + base * n

\* format(v, 'x') and int(s, 16): a string is the sequence of its characters
HexDigits == <<"0", "1", "2", "3", "4", "5", "6", "7", "8", "9", "a", "b", "c", "d", "e", "f">>
RECURSIVE format_x(_)
format_x(v) ==
  IF v < 16 THEN <<HexDigits[v + 1]>>
  ELSE Append(format_x(v \div 16), HexDigits[(v % 16) + 1])
RECURSIVE int_16(_)
int_16(s) ==
  IF s = <<>> THEN 0
  ELSE 16 * int_16(SubSeq(s, 1, Len(s) - 1))
         + (CHOOSE d \in 0..15 : HexDigits[d + 1] = s[Len(s)])

hashid(x) == format_x(shuffle(x, multiplier) + base)

unhashid(x) == shuffle(int_16(x) - base, inverse)

\* hash one of the two ids of the behaviour
Hashid ==
  /\ \E i \in 1..2 :
       LibCall("hashid", <<input[i]>>, [exc |-> "", result |-> hashid(input[i])])
  /\ UNCHANGED <<cfgvars, n_params, input, errvars, logvars, cronvars, tabvars, race>>

\* read back the string hashid returns for one of the two ids
Unhashid ==
  /\ \E i \in 1..2 :
       LET x == hashid(input[i])
       IN LibCall("unhashid", <<x>>, [exc |-> "", result |-> unhashid(x)])
  /\ UNCHANGED <<cfgvars, n_params, input, errvars, logvars, cronvars, tabvars, race>>

\* ------------------------------------------------------------- tabular.py
\* A Tabular is [rows, cols]: rows a sequence of tuples, cols the column names.
\* A dict is a function; a call returns [exc, result].
IndexOf(tup, x) == CHOOSE i \in 1..Len(tup) : tup[i] = x
Without(tup, idxs) ==
  LET keep == SelectSeq([i \in 1..Len(tup) |-> i], LAMBDA i : i \notin idxs)
  IN [n \in 1..Len(keep) |-> tup[keep[n]]]

\* the rows the relations of the model are made of
SourceRows == {<<k, "s">> : k \in {"1", "2"}}
OtherRows  == {<<b, k>> : b \in {"u", "v"}, k \in {"1", "2"}}

\* Tabular.__init__: the checks of the constructor
Tabular(rows, cols) ==
  IF Len(cols) > Cardinality({cols[i] : i \in 1..Len(cols)})
    THEN [exc |-> "ValueError", result |-> "None"]
  ELSE IF Len(rows) > 0 /\ Len(rows[1]) # Len(cols)
    THEN [exc |-> "ValueError", result |-> "None"]
  ELSE [exc |-> "", result |-> [rows |-> rows, cols |-> cols]]

\* _process_row returning the row with its key column
_process_row_keep(row, key, exclude_key) == row

_process_row(row, key, exclude_key) ==
  IF exclude_key THEN Without(row, {key}) ELSE row

_get_key(row, key) == row[key]

\* dictify: with overwrite the last row of a key replaces the earlier ones,
\* without it every key holds the list of its rows in order
dictify(key, iterable, overwrite, exclude_key) ==
  LET keys == {_get_key(iterable[i], key) : i \in 1..Len(iterable)}
      of(k) == SelectSeq(iterable, LAMBDA row : _get_key(row, key) = k)
      processed(rows) == [n \in 1..Len(rows) |-> _process_row(rows[n], key, exclude_key)]
  IN [k \in keys |-> IF overwrite THEN processed(of(k))[Len(of(k))] ELSE processed(of(k))]

dictify_tabular(key, iterable, overwrite, exclude_key) ==
  dictify(IndexOf(iterable.cols, key), iterable.rows, overwrite, exclude_key)

RECURSIVE Concat(_)
Concat(seqs) == IF seqs = <<>> THEN <<>> ELSE Head(seqs) \o Concat(Tail(seqs))

_merge_engine(source, other, column, default, allow_default, skip_not_found) ==
  LET cols_idx == <<IndexOf(source.cols, column)>>
      key_getter(row) == row[cols_idx[1]]
      other_cols == Without(other.cols, {IndexOf(other.cols, column)})
  IN IF ~allow_default /\ ~skip_not_found
       THEN LET other_dict == dictify_tabular(column, other, TRUE, TRUE)
            IN IF Cardinality(DOMAIN other_dict) < Len(other.rows)
                 THEN [exc |-> "ValueError", result |-> "None"]
               ELSE IF \E i \in 1..Len(source.rows) : key_getter(source.rows[i]) \notin DOMAIN other_dict
                 THEN [exc |-> "ValueError", result |-> "None"]
               ELSE Tabular([i \in 1..Len(source.rows) |->
                               source.rows[i] \o other_dict[key_getter(source.rows[i])]],
                            source.cols \o other_cols)
       ELSE LET other_dict == dictify_tabular(column, other, FALSE, TRUE)
                default_values ==
                  IF allow_default
                    THEN <<[n \in 1..Len(other_cols) |->
                              IF other_cols[n] \in DOMAIN default THEN default[other_cols[n]] ELSE "None"]>>
                    ELSE <<>>
                joined(row) ==
                  LET found == IF key_getter(row) \in DOMAIN other_dict
                                 THEN other_dict[key_getter(row)] ELSE default_values
                  IN [n \in 1..Len(found) |-> row \o found[n]]
            IN Tabular(Concat([i \in 1..Len(source.rows) |-> joined(source.rows[i])]),
                       source.cols \o other_cols)

merge(source, other, column) == _merge_engine(source, other, column, <<>>, FALSE, FALSE)
left_join(source, other, column, default) == _merge_engine(source, other, column, default, TRUE, FALSE)
inner_join(source, other, column) == _merge_engine(source, other, column, <<>>, FALSE, TRUE)

Merge ==
  /\ LibCall("merge", <<>>, merge(input.source, input.other, "k"))
  /\ UNCHANGED <<cfgvars, n_params, input, errvars, logvars, cronvars, tabvars, race>>

LeftJoin ==
  /\ \E default \in {<<>>, [b |-> "d"]} :
       LibCall("left_join", <<default>>, left_join(input.source, input.other, "k", default))
  /\ UNCHANGED <<cfgvars, n_params, input, errvars, logvars, cronvars, tabvars, race>>

InnerJoin ==
  /\ LibCall("inner_join", <<>>, inner_join(input.source, input.other, "k"))
  /\ UNCHANGED <<cfgvars, n_params, input, errvars, logvars, cronvars, tabvars, race>>

\* ---------------------------------------- Tabular.to_dicts and to_models
\* dict(zip(keys, values)): the pairs up to the shorter length, a later pair
\* replacing an earlier one of the same key
dict_zip(keys, values) ==
  LET n == IF Len(keys) < Len(values) THEN Len(keys) ELSE Len(values)
  IN [k \in {keys[i] : i \in 1..n} |->
        values[CHOOSE i \in 1..n : keys[i] = k /\ \A j \in (i + 1)..n : keys[j] # k]]

cols_idxs(self, cols) ==
  IF cols = <<>>
    THEN [exc |-> "", result |-> [i \in 1..Len(self.cols) |-> i]]
  ELSE IF \E i \in 1..Len(cols) : cols[i] \notin {self.cols[j] : j \in 1..Len(self.cols)}
    THEN [exc |-> "ValueError", result |-> "None"]
  ELSE [exc |-> "", result |-> [i \in 1..Len(cols) |-> IndexOf(self.cols, cols[i])]]

itemgetter(idxs, row) == [n \in 1..Len(idxs) |-> row[idxs[n]]]

\* idx_getter of to_dicts and to_models: itemgetter over the indexes of the
\* wanted columns when there are several, `lambda r: (r[0], )` otherwise
idx_getter(self, cols) ==
  IF Len(cols) > 1 THEN cols_idxs(self, cols) ELSE [exc |-> "", result |-> <<1>>]

to_dicts(self, cols) ==
  LET wanted == IF cols = <<>> THEN self.cols ELSE cols
      idxs   == idx_getter(self, wanted)
  IN IF idxs.exc # "" THEN idxs
     ELSE [exc |-> "",
           result |-> [i \in 1..Len(self.rows) |->
                         dict_zip(wanted, itemgetter(idxs.result, self.rows[i]))]]

\* model(**kwargs) is the model with its keyword arguments
to_models(self, model, cols, rename_map) ==
  LET wanted  == IF cols = <<>> THEN self.cols ELSE cols
      idxs    == idx_getter(self, wanted)
      renamed == [n \in 1..Len(wanted) |->
                    IF wanted[n] \in DOMAIN rename_map THEN rename_map[wanted[n]] ELSE wanted[n]]
  IN IF idxs.exc # "" THEN idxs
     ELSE [exc |-> "",
           result |-> [i \in 1..Len(self.rows) |->
                         [model |-> model,
                          kwargs |-> dict_zip(renamed, itemgetter(idxs.result, self.rows[i]))]]]

ColumnLists == {<<>>, <<"k">>, <<"a">>, <<"k", "a">>, <<"a", "k">>, <<"a", "z">>}

ToDicts ==
  /\ \E cols \in ColumnLists :
       LibCall("to_dicts", <<cols>>, to_dicts(input.source, cols))
  /\ UNCHANGED <<cfgvars, n_params, input, errvars, logvars, cronvars, tabvars, race>>

ToModels ==
  /\ \E cols \in ColumnLists :
       LibCall("to_models", <<cols>>, to_models(input.source, "User", cols, <<>>))
  /\ UNCHANGED <<cfgvars, n_params, input, errvars, logvars, cronvars, tabvars, race>>

\* ---------------------------------------- sqlwerks.aggregate_filter_select
\* The call with unique=True, one wanted column and no known_values.  A table
\* is [name, keys]: it holds one row for each of its keys, and the value of
\* the wanted column in the row of key k is ValueIn(name, k).
ValueIn(name, k) == name \o ToString(k)
default_obj == "default_obj"
Range(tup) == {tup[i] : i \in 1..Len(tup)}

\* "SELECT <column>, <search_column> FROM <table> WHERE <search_column> IN %s":
\* the keys of the rows the database returns
select_in(table, search_list_filter) == table.keys \cap search_list_filter

\* the keys looked up in every table, resolved or not
unresolved_all(search_list, result, dict_result) == Range(search_list)

\* the new search_list_filter: the keys that still have no result
unresolved(search_list, result, dict_result) ==
  IF dict_result THEN Range(search_list) \ DOMAIN result
  ELSE {search_list[n] : n \in {m \in 1..Len(search_list) : result[m] = default_obj}}

\* set_result_unique for every row of data
set_results(table, data, search_list, result, dict_result) ==
  IF dict_result
    THEN [k \in DOMAIN result \cup data |-> IF k \in data THEN ValueIn(table.name, k) ELSE result[k]]
    ELSE [n \in 1..Len(search_list) |->
            IF search_list[n] \in data THEN ValueIn(table.name, search_list[n]) ELSE result[n]]

\* the loop over the tables from table i on: [result, search_list_filter, queries]
RECURSIVE query_tables(_, _, _, _, _, _, _)
query_tables(tables, i, search_list, result, search_list_filter, queries, dict_result) ==
  IF i > Len(tables)
    THEN [result |-> result, search_list_filter |-> search_list_filter, queries |-> queries]
  ELSE LET data == select_in(tables[i], search_list_filter)
           sent == Append(queries, [table |-> tables[i].name, keys |-> search_list_filter])
           res  == set_results(tables[i], data, search_list, result, dict_result)
       IN IF i < Len(tables)
            THEN LET rest == unresolved(search_list, res, dict_result)
                 IN IF rest = {}
                      THEN [result |-> res, search_list_filter |-> rest, queries |-> sent]
                      ELSE query_tables(tables, i + 1, search_list, res, rest, sent, dict_result)
            ELSE [result |-> res, search_list_filter |-> search_list_filter, queries |-> sent]

aggregate_filter_select(tables, search_list, default_value, raise_not_found, dict_result, dict_exclude_not_found) ==
  IF search_list = <<>> THEN [exc |-> "", result |-> <<>>, queries |-> <<>>]
  ELSE
    LET first == IF dict_result THEN <<>> ELSE [n \in 1..Len(search_list) |-> default_obj]
        q == query_tables(tables, 1, search_list, first, Range(search_list), <<>>, dict_result)
    IN IF dict_result
         THEN LET left == q.search_list_filter \ DOMAIN q.result
              IN IF left # {} /\ raise_not_found
                   THEN [exc |-> "ValueError", result |-> "None", queries |-> q.queries]
                 ELSE IF left # {} /\ ~dict_exclude_not_found
                   THEN [exc |-> "", queries |-> q.queries,
                         result |-> [k \in DOMAIN q.result \cup left |->
                                       IF k \in left THEN default_value ELSE q.result[k]]]
                 ELSE [exc |-> "", result |-> q.result, queries |-> q.queries]
         ELSE IF raise_not_found /\ \E n \in 1..Len(search_list) : q.result[n] = default_obj
           THEN [exc |-> "ValueError", result |-> "None", queries |-> q.queries]
         ELSE [exc |-> "", queries |-> q.queries,
               result |-> [n \in 1..Len(search_list) |->
                             IF q.result[n] = default_obj THEN default_value ELSE q.result[n]]]

AggregateFilterSelect ==
  /\ \E default_value \in {"None", "dflt"}, raise_not_found \in BOOLEAN, dict_result \in BOOLEAN :
       LibCall("aggregate_filter_select", <<default_value, raise_not_found, dict_result>>,
               aggregate_filter_select(input.tables, input.search_list, default_value,
                                       raise_not_found, dict_result, FALSE))
  /\ UNCHANGED <<cfgvars, n_params, input, errvars, logvars, cronvars, tabvars, race>>

\* ------------------------- backend_tools/errors.py, backend_rest_api/errors.py
ERR_DATABASE_DATA_CORRUPTION == 202
ERR_VALIDATE_PARAMS          == 400
ERR_USER_NOT_FOUND           == 1
ERR_PERMISSION_DENIED        == 149
ERR_OPERATION_TOO_LONG       == 410

MaxSources == 2     \* dictionaries passed to one add_errors call

SeqsUpTo(S, n) == UNION {[1..k -> S] : k \in 0..n}

\* a Python dict as a function; d.update(src)
Update(d, src) == [k \in DOMAIN d \cup DOMAIN src |-> IF k \in DOMAIN src THEN src[k] ELSE d[k]]
EmptyDict == [k \in {} |-> ""]

\* the codes and messages the calls are made with: a code registered with the
\* module, a code that has a status only, and a code nobody uses
ErrCodes    == {ERR_INVALID_PARAMS, ERR_VALIDATE_PARAMS, 300}
ErrMessages == {"m1", "m2"}
ErrSources  == UNION {[cs -> ErrMessages] : cs \in {c \in SUBSET ErrCodes : Cardinality(c) = 1}}

\* add_errors(*args) from source number index on: [exc, ERRORS]
RECURSIVE add_errors(_, _, _)
add_errors(errors, args, index) ==
  IF index > Len(args) THEN [exc |-> "", ERRORS |-> errors]
  ELSE IF DOMAIN errors \cap DOMAIN args[index] # {}
    THEN [exc |-> "ValueError", ERRORS |-> errors]
  ELSE add_errors(Update(errors, args[index]), args, index + 1)

\* the test of http_error: whether the code is taken
http_error_exists(errors, err_code) == err_code \in DOMAIN HTTP_STATUS_CODES

ErrCall(op, args, exc) ==
  /\ err_last' = [op |-> op, args |-> args, exc |-> exc, before |-> ERRORS]
  /\ UNCHANGED <<authvars, drvvars, cfgvars, n_params, input, lib_last, logvars, cronvars, tabvars, race>>

AddErrors ==
  \E args \in SeqsUpTo(ErrSources, MaxSources) :
    LET r == add_errors(ERRORS, args, 1)
    IN /\ ERRORS' = r.ERRORS
       /\ ErrCall("add_errors", args, r.exc)
       /\ UNCHANGED <<rest_ERRORS, HTTP_STATUS_CODES>>

HttpError ==
  \E err_code \in ErrCodes, err_message \in ErrMessages :
    IF http_error_exists(ERRORS, err_code)
      THEN /\ ErrCall("http_error", <<err_code, err_message>>, "ValueError")
           /\ UNCHANGED <<ERRORS, rest_ERRORS, HTTP_STATUS_CODES>>
      ELSE /\ rest_ERRORS' = Update(rest_ERRORS, [k \in {err_code} |-> err_message])
           /\ HTTP_STATUS_CODES' = Update(HTTP_STATUS_CODES, [k \in {err_code} |-> 404])
           /\ ErrCall("http_error", <<err_code, err_message>>, "")
           /\ UNCHANGED ERRORS

\* add_errors(ERRORS); ERRORS.clear()
AddHttpErrors ==
  LET r == add_errors(ERRORS, <<rest_ERRORS>>, 1)
  IN /\ ERRORS' = r.ERRORS
     /\ rest_ERRORS' = IF r.exc = "" THEN EmptyDict ELSE rest_ERRORS
     /\ ErrCall("add_http_errors", <<>>, r.exc)
     /\ UNCHANGED HTTP_STATUS_CODES

\* the registry once backend_tools.errors and backend_rest_api.errors are imported
InitErrors ==
  /\ ERRORS = (ERR_OK :> "" @@ ERR_DATABASE_DATA_CORRUPTION :> "Database data corruption"
               @@ ERR_INVALID_PARAMS :> "Invalid parameters"
               @@ ERR_USER_NOT_FOUND :> "User not found"
               @@ ERR_PERMISSION_DENIED :> "Permission denied"
               @@ ERR_OPERATION_TOO_LONG :> "Operation too long - timeout. Try again later")
  /\ rest_ERRORS = EmptyDict
  /\ HTTP_STATUS_CODES = (ERR_OK :> 200 @@ ERR_INVALID_PARAMS :> 400
                          @@ ERR_DATABASE_DATA_CORRUPTION :> 500 @@ ERR_VALIDATE_PARAMS :> 400
                          @@ ERR_USER_NOT_FOUND :> 404 @@ ERR_PERMISSION_DENIED :> 403
                          @@ ERR_OPERATION_TOO_LONG :> 504)
  /\ err_last = [op |-> "", args |-> <<>>, exc |-> "", before |-> EmptyDict]

\* ------------------------------------------------------------------ logger.py
LOG_DEBUG   == 10
LOG_INFO    == 20
LOG_WARNING == 30
LOG_ERROR   == 40
LOG_FATAL   == 50
LOG_LEVEL   == LOG_INFO      \* cfg_value('LOG_LEVEL', cast=int, default=LOG_INFO)

MaxRun == 3     \* calls counted in one run of equal messages

LogMessages == {"", "a", "b"}
LogLevels   == {LOG_INFO, LOG_WARNING, LOG_ERROR}
NoRun       == [mess |-> "", k |-> 0]
\* _log = None
NoLog       == [set |-> FALSE, handlers |-> FALSE, level |-> 0]

\* The logger state a call works on: the six module globals and out, the
\* records the call has passed to a handler of the log.  A record is
\* [level, msg, n]; n fills the {} of the two 'duplicated {} times' messages.
LogEnv == [_log |-> _log, _settings |-> _settings,
           _last_warning |-> _last_warning, _last_warning_cnt |-> _last_warning_cnt,
           _last_error |-> _last_error, _last_error_cnt |-> _last_error_cnt, out |-> <<>>]

\* _settings.get('log_level', LOG_LEVEL)
log_level(e) == IF "log_level" \in DOMAIN e._settings THEN e._settings.log_level ELSE LOG_LEVEL

\* destroy(); close_logger removes the handlers and leaves _log set
destroy(e) ==
  IF ~e._log.set THEN e
  ELSE [e EXCEPT !._log = [e._log EXCEPT !.handlers = FALSE], !._settings = <<>>,
                 !._last_warning = "", !._last_warning_cnt = 0,
                 !._last_error = "", !._last_error_cnt = 0]

\* _setup(log_level=..., console_only=True): the logger gets its level and a ConsoleHandler
_setup(e, level) ==
  [e EXCEPT !._settings = [log_level |-> level, console_only |-> TRUE],
            !._log = [set |-> TRUE, handlers |-> TRUE, level |-> level]]

setup(e, level) == _setup(destroy(e), level)

\* _get_log(): a log that was never set up is set up for the console
_get_log(e) == IF ~e._log.set THEN setup(e, LOG_LEVEL) ELSE e

\* to_log(message, level=level); _reinit_required() is false for a console
\* log and for cleared settings.  The logger passes the record to its
\* handlers when the level admits it; without a handler nothing reaches the log.
to_log(e, message, level, n) ==
  LET g == _get_log(e)
  IN IF g._log.handlers /\ level >= g._log.level
       THEN [g EXCEPT !.out = Append(g.out, [level |-> level, msg |-> message, n |-> n])]
       ELSE g

info(e, message, n) == IF log_level(e) <= LOG_INFO THEN to_log(e, message, LOG_INFO, n) ELSE e

warning(e, mess) ==
  IF log_level(e) > LOG_WARNING THEN e
  ELSE LET e1 == IF e._last_warning # mess
                   THEN LET f == IF e._last_warning_cnt > 2
                                   THEN info(e, "Last warning duplicated {} times", e._last_warning_cnt)
                                   ELSE e
                        IN [to_log(f, mess, LOG_WARNING, 0) EXCEPT !._last_warning_cnt = 0]
                   ELSE e
       IN [e1 EXCEPT !._last_warning = mess, !._last_warning_cnt = e1._last_warning_cnt + 1]

error(e, mess) ==
  IF log_level(e) > LOG_ERROR THEN e
  ELSE LET e1 == IF e._last_error # mess
                   THEN LET f == IF e._last_error_cnt > 2
                                   THEN info(e, "Last error duplicated {} times", e._last_error_cnt)
                                   ELSE e
                        IN [to_log(f, mess, LOG_ERROR, 0) EXCEPT !._last_error_cnt = 0]
                   ELSE e
       IN [e1 EXCEPT !._last_error = mess, !._last_error_cnt = e1._last_error_cnt + 1]

\* the run of equal messages after one more call with mess
RunAfter(run, mess) == IF run.k > 0 /\ run.mess = mess THEN [mess |-> mess, k |-> run.k + 1]
                       ELSE [mess |-> mess, k |-> 1]

\* one logger call: e is the state it leaves, wrun and erun the runs after it
LogCall(op, mess, e, wrun, erun) ==
  /\ _log' = e._log
  /\ _settings' = e._settings
  /\ _last_warning' = e._last_warning
  /\ _last_warning_cnt' = e._last_warning_cnt
  /\ _last_error' = e._last_error
  /\ _last_error_cnt' = e._last_error_cnt
  /\ log_last' = [op |-> op, mess |-> mess, log_level |-> log_level(LogEnv), written |-> e.out,
                  wprev |-> log_last.wrun, eprev |-> log_last.erun, wrun |-> wrun, erun |-> erun]
  /\ UNCHANGED <<authvars, drvvars, cfgvars, n_params, input, lib_last, errvars, cronvars, tabvars, race>>

Setup ==
  \E level \in LogLevels : LogCall("setup", "", setup(LogEnv, level), NoRun, NoRun)

Warning ==
  \E mess \in LogMessages :
    /\ _last_warning = mess => _last_warning_cnt < MaxRun
    /\ LogCall("warning", mess, warning(LogEnv, mess),
               IF log_level(LogEnv) > LOG_WARNING THEN log_last.wrun ELSE RunAfter(log_last.wrun, mess),
               log_last.erun)

Error ==
  \E mess \in LogMessages :
    /\ _last_error = mess => _last_error_cnt < MaxRun
    /\ LogCall("error", mess, error(LogEnv, mess), log_last.wrun,
               IF log_level(LogEnv) > LOG_ERROR THEN log_last.erun ELSE RunAfter(log_last.erun, mess))

Destroy == LogCall("destroy", "", destroy(LogEnv), NoRun, NoRun)

\* the module as imported (logger.py:375-380)
InitLogger ==
  /\ _log = NoLog
  /\ _settings = <<>>
  /\ _last_warning = ""
  /\ _last_warning_cnt = 0
  /\ _last_error = ""
  /\ _last_error_cnt = 0
  /\ log_last = [op |-> "", mess |-> "", log_level |-> LOG_LEVEL, written |-> <<>>,
                 wprev |-> NoRun, eprev |-> NoRun, wrun |-> NoRun, erun |-> NoRun]

\* -------------------------------------- decorators.py: CronTaskGenerator
MaxCronTime == 5     \* the clock stops here
MaxCronNext == 2     \* the longest wait cron.next() returns
MaxResumes  == 4     \* resumes of the generator

\* cron.next(): the time to the next trigger, always in the future
CronDeltas == 1..MaxCronNext

\* time_has_come
time_has_come(start, t) == start <= t

\* one resume of core(*args), suspended at pc, at time t; t2 is the time of
\* the second time() call and d what cron.next() returns then
resume(pc, start, t, t2, d) ==
  IF pc = "start" THEN [pc |-> "first", next_start |-> start, ran |-> 0]
  ELSE IF ~time_has_come(start, t) THEN [pc |-> "loop", next_start |-> start, ran |-> 0]
  ELSE [pc |-> "loop", next_start |-> t2 + d, ran |-> 1]

\* next(gen) by the external driver; the clock may move between the two time() calls
Resume ==
  \E t2 \in {cron_time, cron_time + 1}, d \in CronDeltas :
    /\ t2 <= MaxCronTime
    /\ cron_last.resumes < MaxResumes
    /\ LET r == resume(gen_pc, next_start, cron_time, t2, d)
       IN /\ gen_pc' = r.pc
          /\ next_start' = r.next_start
          /\ cron_last' = [op |-> "resume", at |-> cron_time, before |-> next_start,
                           ran |-> r.ran, resumes |-> cron_last.resumes + 1,
                           runs |-> cron_last.runs + r.ran]
    /\ cron_time' = t2
    /\ UNCHANGED <<authvars, drvvars, cfgvars, n_params, input, lib_last, errvars, logvars, tabvars, race>>

CronTick ==
  /\ cron_time < MaxCronTime
  /\ cron_time' = cron_time + 1
  /\ cron_last' = [cron_last EXCEPT !.op = "tick", !.ran = 0]
  /\ UNCHANGED <<next_start, gen_pc>>
  /\ UNCHANGED <<authvars, drvvars, cfgvars, n_params, input, lib_last, errvars, logvars, tabvars, race>>

\* CronTaskGenerator(cron) applied to func and core(*args) called, at time 0
InitCron(d) ==
  /\ cron_time = 0
  /\ next_start = 0 + d
  /\ gen_pc = "start"
  /\ cron_last = [op |-> "", at |-> 0, before |-> 0, ran |-> 0, resumes |-> 0, runs |-> 0]

\* --------------------------------------- tabular.py: objects and their lists
\* A Tabular keeps the list it was given (self.rows = rows): two objects
\* built on one list see each other's extend.  A method's outcome is
\* [exc, fresh, rows, ref, cols]: a new list holding rows when fresh, the
\* existing list ref otherwise.
Fresh(rows, cols)  == [exc |-> "", fresh |-> TRUE, rows |-> rows, ref |-> 0, cols |-> cols]
Shared(ref, cols)  == [exc |-> "", fresh |-> FALSE, rows |-> <<>>, ref |-> ref, cols |-> cols]
OfValue(r) == IF r.exc # "" THEN [exc |-> r.exc, fresh |-> TRUE, rows |-> <<>>, ref |-> 0, cols |-> <<>>]
              ELSE Fresh(r.result.rows, r.result.cols)

\* the relation an object stands for
ValueOf(lists, t) == [rows |-> lists[t.rows], cols |-> t.cols]

\* the functions the calls of the model pass: key of filter, key of sort, func of col_map
filter_key(row) == row[1] = "1"
sort_key(row)   == IF row[1] = "1" THEN 1 ELSE 2
map_func(v)     == v \o "!"
Reverse(tup)    == [i \in 1..Len(tup) |-> tup[Len(tup) + 1 - i]]
\* sorted(rows, key=sort_key): stable
Sorted(rows)    == SelectSeq(rows, LAMBDA r : sort_key(r) = 1) \o SelectSeq(rows, LAMBDA r : sort_key(r) # 1)

\* Tabular.__copy__: Tabular(self.rows, self.cols)
__copy__(lists, self) == Shared(self.rows, self.cols)

\* Tabular.__getitem__(slice(start, None)): self.rows[start:]
__getitem__(lists, self, start) ==
  Fresh(SubSeq(lists[self.rows], start + 1, Len(lists[self.rows])), self.cols)

\* Tabular.__add__
__add__(lists, self, other) ==
  IF other.cols # self.cols THEN [Fresh(<<>>, <<>>) EXCEPT !.exc = "ValueError"]
  ELSE Fresh(lists[self.rows] \o lists[other.rows], self.cols)

\* Tabular.col_rename: Tabular(self.rows, [...])
col_rename(lists, self, col_from, col_to) ==
  Shared(self.rows, [i \in 1..Len(self.cols) |-> IF self.cols[i] # col_from THEN self.cols[i] ELSE col_to])

\* TabularStatic.filter
filter(lists, data) == Fresh(SelectSeq(lists[data.rows], filter_key), data.cols)

\* TabularStatic.sorted: sorted(data.rows, key) when raw, Tabular(data.rows, data.cols, key, reverse)
\* otherwise, whose constructor builds self.rows anew from the weights
sorted(lists, data, raw, reverse) ==
  Fresh(IF reverse THEN Reverse(Sorted(lists[data.rows])) ELSE Sorted(lists[data.rows]), data.cols)

\* TabularStatic.filter_columns
filter_columns(lists, data, columns) ==
  Fresh([n \in 1..Len(lists[data.rows]) |->
           [i \in 1..Len(columns) |-> lists[data.rows][n][IndexOf(data.cols, columns[i])]]], columns)

\* TabularStatic.col_map
tab_col_map(lists, data, column) ==
  Fresh([n \in 1..Len(lists[data.rows]) |->
           [i \in 1..Len(data.cols) |->
              IF i = IndexOf(data.cols, column) THEN map_func(lists[data.rows][n][i])
              ELSE lists[data.rows][n][i]]], data.cols)

\* the methods of the model, each applied to the object self
TabularOps == {"slice", "copy", "filter", "sort", "sort_raw", "only", "col_rename", "col_map",
               "merge", "left_join", "inner_join", "add"}
Apply(op, lists, self, other, more) ==
  CASE op = "slice"      -> __getitem__(lists, self, 0)
    [] op = "copy"       -> __copy__(lists, self)
    [] op = "filter"     -> filter(lists, self)
    [] op = "sort"       -> sorted(lists, self, FALSE, TRUE)
    [] op = "sort_raw"   -> sorted(lists, self, TRUE, FALSE)
    [] op = "only"       -> filter_columns(lists, self, <<"a">>)
    [] op = "col_rename" -> col_rename(lists, self, "a", "z")
    [] op = "col_map"    -> tab_col_map(lists, self, "a")
    [] op = "merge"      -> OfValue(merge(ValueOf(lists, self), ValueOf(lists, other), "k"))
    [] op = "left_join"  -> OfValue(left_join(ValueOf(lists, self), ValueOf(lists, other), "k", <<>>))
    [] op = "inner_join" -> OfValue(inner_join(ValueOf(lists, self), ValueOf(lists, other), "k"))
    [] op = "add"        -> __add__(lists, self, more)

\* result = source.<op>(...): object 1 is the source, 2 the other side of a
\* join, 3 a relation with the columns of the source, 4 the result
Transform ==
  /\ Len(tab_objs) = 3
  /\ \E op \in TabularOps :
       LET r == Apply(op, tab_lists, tab_objs[1], tab_objs[2], tab_objs[3])
       IN /\ tab_last' = [op |-> op, exc |-> r.exc]
          /\ IF r.exc # "" THEN UNCHANGED <<tab_lists, tab_objs>>
             ELSE IF r.fresh
               THEN /\ tab_lists' = Append(tab_lists, r.rows)
                    /\ tab_objs' = Append(tab_objs, [rows |-> Len(tab_lists) + 1, cols |-> r.cols])
               ELSE /\ tab_objs' = Append(tab_objs, [rows |-> r.ref, cols |-> r.cols])
                    /\ UNCHANGED tab_lists
  /\ UNCHANGED <<authvars, drvvars, cfgvars, n_params, input, lib_last, errvars, logvars, cronvars, race>>

\* Tabular.extend on a result whose columns are still those of the source:
\* self.rows.extend(other.rows)
Extend ==
  /\ Len(tab_objs) = 4
  /\ tab_last.op # "extend"
  /\ IF tab_objs[3].cols # tab_objs[4].cols
       THEN /\ tab_last' = [op |-> "extend", exc |-> "ValueError"]
            /\ UNCHANGED <<tab_lists, tab_objs>>
       ELSE /\ tab_lists' = [tab_lists EXCEPT ![tab_objs[4].rows] = @ \o tab_lists[tab_objs[3].rows]]
            /\ tab_last' = [op |-> "extend", exc |-> ""]
            /\ UNCHANGED tab_objs
  /\ UNCHANGED <<authvars, drvvars, cfgvars, n_params, input, lib_last, errvars, logvars, cronvars, race>>

\* three relations built from rows received from queries
InitTabularObjects(in) ==
  /\ tab_lists = <<in.source.rows, in.other.rows, <<<<"3", "s">>>> >>
  /\ tab_objs = <<[rows |-> 1, cols |-> in.source.cols], [rows |-> 2, cols |-> in.other.cols],
                  [rows |-> 3, cols |-> in.source.cols]>>
  /\ tab_last = [op |-> "", exc |-> ""]

\* the state of the other libraries after import
InitLibRest ==
  /\ n_params = 0
  /\ lib_last = NoLibLast
  /\ InitErrors
  /\ InitLogger
  /\ race = NoRace
  /\ InitCron(1)
  /\ InitTabularObjects([source |-> [rows |-> <<>>, cols |-> <<"k", "a">>],
                         other |-> [rows |-> <<>>, cols |-> <<"b", "k">>]])

InitLib == InitConfigEnv({<<>>}) /\ InitLibRest /\ input = <<>>

\* ---- Spec: the whole controller, one call at a time, on one connection ----
Init == InitAuth([ctk |-> AllMaxCtk, tok |-> AllMaxTok, time |-> 0]) /\ InitDrv /\ InitLib

Next ==
  \/ UserRegister(Emails, {"p"}, BOOLEAN, {FALSE})
  \/ UserActivate(TokArgs(AllMaxCtk), {FALSE})
  \/ UserLogin(Emails, Passwords, {FALSE})
  \/ UserRefresh(TokArgs(AllMaxTok), {FALSE})
  \/ UserForgotEmail(Emails, {TRUE}, {FALSE})
  \/ UserActivationEmail(Emails, {TRUE}, {FALSE})
  \/ UserReset(TokArgs(AllMaxCtk), Passwords, {FALSE})
  \/ UserLogout(TokArgs(AllMaxTok), {FALSE})
  \/ AdminBlockUser

Spec == Init /\ [][Next]_vars

\* ---- SpecLifecycle: registration, activation and password reset ----------
InitLifecycle == InitAuth([ctk |-> LifeMaxCtk, tok |-> 0, time |-> 0]) /\ InitDrv /\ InitLib

NextLifecycle ==
  \/ UserRegister(Emails, Passwords, BOOLEAN, {FALSE})
  \/ UserActivate(TokArgs(LifeMaxCtk), {FALSE})
  \/ UserForgotEmail(Emails, BOOLEAN, {FALSE})
  \/ UserActivationEmail(Emails, BOOLEAN, {FALSE})
  \/ UserReset(TokArgs(LifeMaxCtk), Passwords, {FALSE})

SpecLifecycle == InitLifecycle /\ [][NextLifecycle]_vars

\* ---- SpecSession: session tokens under a running clock -------------------
InitSession == InitAuth([ctk |-> SessMaxCtk, tok |-> SessMaxTok, time |-> MaxTime]) /\ InitDrv /\ InitLib

NextSession ==
  \/ UserRegister({"a@x", "b@x"}, {"p"}, {TRUE}, {FALSE})
  \/ UserActivate(1..SessMaxCtk, {FALSE})
  \/ UserLogin({"a@x", "b@x"}, {"p"}, {FALSE})
  \/ UserRefresh(TokArgs(SessMaxTok), {FALSE})
  \/ UserLogout(TokArgs(SessMaxTok), BOOLEAN)
  \/ RefreshTokens(TokArgs(SessMaxTok), {FALSE})
  \/ CheckAccessToken(TokArgs(SessMaxTok), {FALSE})
  \/ Tick

SpecSession == InitSession /\ [][NextSession]_vars

\* ---- SpecBlocked: the sessions of accounts an administrator blocks --------
InitBlocked == InitAuth([ctk |-> BlockMaxCtk, tok |-> BlockMaxTok, time |-> 0]) /\ InitDrv /\ InitLib

NextBlocked ==
  \/ UserRegister({"a@x", "b@x"}, {"p"}, {TRUE}, {FALSE})
  \/ UserActivate(1..BlockMaxCtk, {FALSE})
  \/ UserLogin({"a@x", "b@x"}, {"p"}, {FALSE})
  \/ UserRefresh(TokArgs(BlockMaxTok), BOOLEAN)
  \/ CheckAccessToken(TokArgs(BlockMaxTok), {FALSE})
  \/ AdminBlockUser

SpecBlocked == InitBlocked /\ [][NextBlocked]_vars

\* ---- SpecDrv: the connection pool and the decorated primitives ----------
NextDrv ==
  \/ AddConnection
  \/ CloseConnection
  \/ ExecuteQuery
  \/ ExecuteQueryLight
  \/ ExecuteCopy
  \/ SetStatementTimeout
  \/ GetEvents_
  \/ ExecuteQueryEnv
  \/ AddEventListener
  \/ RemoveEventListener
  \/ ServerDown
  \/ ServerUp

SpecDrv == Init /\ [][NextDrv]_vars

\* ---- SpecCommit: statements with commit and rollback flags ----
InitCommit ==
  /\ InitAuth([ctk |-> 0, tok |-> 0, time |-> 0]) /\ InitDrv
  /\ InitConfigEnv({<<>>}) /\ InitLibRest
  /\ input \in {[without_commit |-> b] : b \in BOOLEAN}

SpecCommit == InitCommit /\ [][ExecuteInsert]_vars

\* ---- SpecRace: two refresh_tokens calls with one refresh value ----
\* some users hold a session pair; both calls present the refresh value of one of them
InitRace ==
  /\ tb_registration = {} /\ tb_user = {} /\ confirm_token = {}
  /\ token \in TokenTables \ {{}}
  /\ seq = [reg |-> 0, usr |-> 0, tok |-> 2 * MaxSessions, ctk |-> 0]
  /\ lim = [ctk |-> 0, tok |-> 2 * MaxSessions + 4, time |-> MaxTime + TTL_REFRESH_TOKEN]
  /\ committed = [reg |-> {}, usr |-> {}, tok |-> token, ctk |-> {}]
  /\ now \in 0..MaxTime
  /\ last = NoLast
  /\ spent = {}
  /\ InitDrv
  /\ InitConfigEnv({<<>>}) /\ input = <<>>
  /\ n_params = 0 /\ lib_last = NoLibLast /\ InitErrors /\ InitLogger /\ InitCron(1)
  /\ InitTabularObjects([source |-> [rows |-> <<>>, cols |-> <<"k", "a">>],
                         other |-> [rows |-> <<>>, cols |-> <<"b", "k">>]])
  /\ \E r \in token : r.refresh_expiration > now /\ race = StartRace(r.refresh)

NextRace ==
  \/ \E p \in Callers : RaceSelect(p)
  \/ \E p \in Callers : RaceDelete(p)
  \/ \E p \in Callers : RaceCreate(p)
  \/ RaceTick

SpecRace == InitRace /\ [][NextRace]_vars

\* ---- SpecCfg: the configuration object under patches and reloads --------
InitCfg ==
  /\ InitAuth([ctk |-> 0, tok |-> 0, time |-> 0]) /\ InitDrv
  /\ InitConfigEnv(CfgFiles)
  /\ InitLibRest /\ input = <<>>

NextCfg ==
  \/ GetValue
  \/ PatchCfg
  \/ CfgReload

SpecCfg == InitCfg /\ [][NextCfg]_vars

\* ---- SpecWhere: where() over trees of comparisons ------------------------
CmpLeaves == {[field |-> "a", cmp |-> "=", value |-> v] : v \in {"None", "1", "2"}}

\* the state after import, with the arguments of the helper under study drawn from inputs
InitPure(inputs) ==
  /\ InitAuth([ctk |-> 0, tok |-> 0, time |-> 0]) /\ InitDrv
  /\ InitConfigEnv({<<>>}) /\ InitLibRest
  /\ input \in inputs

InitWhere == InitPure(ExprFuncs(CmpLeaves))

SpecWhere == InitWhere /\ [][Where]_vars

\* ---- SpecWhereAbsent: where() over operands that are all None ------------
AbsentLeaves ==
  {[field |-> "a", cmp |-> c, value |-> "None"] : c \in {"=", "LIKE", "@>", "IN", "NOT IN"}}

InitWhereAbsent == InitPure(ExprFuncs(AbsentLeaves))

SpecWhereAbsent == InitWhereAbsent /\ [][Where]_vars

\* ---- SpecHashid: hashid and unhashid over pairs of ids -------------------
HashIds == (0..MaxId) \cup ((base - 1 - MaxId)..(base - 1))

InitHashid == InitPure(HashIds \X HashIds)

NextHashid ==
  \/ Hashid
  \/ Unhashid

SpecHashid == InitHashid /\ [][NextHashid]_vars

\* ---- SpecTabular: merge, left_join and inner_join of two relations -------

InitTabular ==
  InitPure({[source |-> [rows |-> sr, cols |-> <<"k", "a">>],
             other  |-> [rows |-> orr, cols |-> <<"b", "k">>]] :
              sr \in SeqsUpTo(SourceRows, MaxRows), orr \in SeqsUpTo(OtherRows, MaxRows)})

NextTabular ==
  \/ Merge
  \/ LeftJoin
  \/ InnerJoin

SpecTabular == InitTabular /\ [][NextTabular]_vars

\* ---- SpecRowDicts: to_dicts and to_models of a relation ------------------
NextRowDicts ==
  \/ ToDicts
  \/ ToModels

SpecRowDicts == InitTabular /\ [][NextRowDicts]_vars

\* ---- SpecPool: the settings of the pool and of its event connections -----
NextPool ==
  \/ AddConnection
  \/ PgForgetConnection
  \/ CloseConnection
  \/ ResetPools
  \/ AddEventListener
  \/ RemoveEventListener
  \/ GenerateEvent
  \/ GetEvents

InitPool == InitAuth([ctk |-> 0, tok |-> 0, time |-> 0]) /\ InitDrv /\ InitLib

SpecPool == InitPool /\ [][NextPool]_vars

\* ---- SpecErrors: the error registry of backend_tools and backend_rest_api ----
InitErrors_ == InitPure({<<>>})

NextErrors ==
  \/ AddErrors
  \/ HttpError
  \/ AddHttpErrors

SpecErrors == InitErrors_ /\ [][NextErrors]_vars

\* ---- SpecLogger: the logger module, one call at a time ----
InitLogger_ == InitPure({<<>>})

NextLogger ==
  \/ Setup
  \/ Warning
  \/ Error
  \/ Destroy

SpecLogger == InitLogger_ /\ [][NextLogger]_vars

\* ---- SpecRabbidz: remove_rabbidz on a table of session pairs ----
InitRabbidz ==
  /\ tb_registration = {} /\ tb_user = {} /\ confirm_token = {}
  /\ token \in TokenTables
  /\ seq = [reg |-> 0, usr |-> 0, tok |-> 2 * MaxSessions, ctk |-> 0]
  /\ lim = [ctk |-> 0, tok |-> 2 * MaxSessions, time |-> MaxTime + TTL_ACCESS_TOKEN]
  /\ committed = [reg |-> {}, usr |-> {}, tok |-> token, ctk |-> {}]
  /\ now \in 0..(MaxTime + TTL_ACCESS_TOKEN)
  /\ last = NoLast
  /\ spent = {}
  /\ InitDrv /\ InitLib

SpecRabbidz == InitRabbidz /\ [][RemoveRabbidz(0..MaxSessions)]_vars

\* ---- SpecCron: one task generator and the clock ----
InitCron_ ==
  /\ InitAuth([ctk |-> 0, tok |-> 0, time |-> 0]) /\ InitDrv
  /\ InitConfigEnv({<<>>})
  /\ n_params = 0 /\ lib_last = NoLibLast /\ InitErrors /\ InitLogger /\ race = NoRace
  /\ \E d \in CronDeltas : InitCron(d)
  /\ InitTabularObjects([source |-> [rows |-> <<>>, cols |-> <<"k", "a">>],
                         other |-> [rows |-> <<>>, cols |-> <<"b", "k">>]])
  /\ input = <<>>

NextCron ==
  \/ Resume
  \/ CronTick

SpecCron == InitCron_ /\ [][NextCron]_vars

\* ---- SpecTabularObjects: Tabular objects and the lists behind them ----
InitTabularObjects_ ==
  /\ InitAuth([ctk |-> 0, tok |-> 0, time |-> 0]) /\ InitDrv
  /\ InitConfigEnv({<<>>})
  /\ n_params = 0 /\ lib_last = NoLibLast /\ InitErrors /\ InitLogger /\ InitCron(1) /\ race = NoRace
  /\ input \in {[source |-> [rows |-> sr, cols |-> <<"k", "a">>],
                 other  |-> [rows |-> orr, cols |-> <<"b", "k">>]] :
                  sr \in SeqsUpTo(SourceRows, MaxRows), orr \in SeqsUpTo(OtherRows, MaxRows)}
  /\ InitTabularObjects(input)

NextTabularObjects ==
  \/ Transform
  \/ Extend

SpecTabularObjects == InitTabularObjects_ /\ [][NextTabularObjects]_vars

\* ---- SpecAggregate: aggregate_filter_select over a list of tables --------
SearchKeys  == 1..3
TableNames  == <<"A", "B", "C">>
\* every list of MaxTables tables, table i named TableNames[i] and holding any of the keys
TableLists  ==
  {[i \in 1..MaxTables |-> [name |-> TableNames[i], keys |-> ks[i]]] :
     ks \in [1..MaxTables -> SUBSET SearchKeys]}
\* the lists of keys without a repetition
SearchLists ==
  {sl \in SeqsUpTo(SearchKeys, Cardinality(SearchKeys)) :
     \A i, j \in 1..Len(sl) : i # j => sl[i] # sl[j]}

InitAggregate == InitPure({[tables |-> t, search_list |-> sl] : t \in TableLists, sl \in SearchLists})

SpecAggregate == InitAggregate /\ [][AggregateFilterSelect]_vars

\* ======================================================================
\* Properties
\* ======================================================================
\* the call recorded in l failed with `code`, returned or raised as ControllerError
Failed(l, code) == l.code = code /\ (l.exc = "" \/ l.exc = "ControllerError")
Succeeded(l) == l.code = ERR_OK /\ l.exc = ""
\* two addresses of the model's alphabet that differ at most in case
SameIgnoringCase(x, y) == x = y \/ {x, y} = {"a@x", "A@x"}

\* ---------------------------------------------------------------------- C1
\* one step of SpecSession, read as the call that `last'` records
C1_Step ==
  /\ last'.op = "refresh_tokens" =>
       LET refresh == last'.arg[1]
       IN /\ \A r \in token' : r.refresh # refresh
          /\ <<"refresh", refresh>> \in spent =>
                /\ Failed(last', ERR_REFRESH_TOKEN_EXPIRED)
                /\ token' = token
  /\ (last'.op = "check_access_token" /\ <<"access", last'.arg[1]>> \in spent) =>
       Failed(last', ERR_ACCESS_TOKEN_EXPIRED)

\* C1: a refresh token is single use.  refresh_tokens deletes the row of the
\* presented value whether or not it has expired; once a call has succeeded,
\* another refresh_tokens with the same value fails with
\* ERR_REFRESH_TOKEN_EXPIRED and inserts no row, and check_access_token on the
\* access value that was paired with it fails with ERR_ACCESS_TOKEN_EXPIRED.
C1_RefreshSingleUse == [][C1_Step]_vars

\* C1 witness: a second refresh_tokens with an already used value was rejected
C1_Witness ==
  /\ last.op = "refresh_tokens"
  /\ <<"refresh", last.arg[1]>> \in spent
  /\ Failed(last, ERR_REFRESH_TOKEN_EXPIRED)

\* ---------------------------------------------------------------------- C2
BlockedMatch(email, password) ==
  \E u \in tb_user : /\ SameIgnoringCase(u.email, email)
                     /\ u.deleted
                     /\ check_salted_hash(password, u.hash)
C2_Step ==
  (last'.op = "user_login" /\ BlockedMatch(last'.arg[1], last'.arg[2])) =>
    /\ Failed(last', ERR_USER_BLOCKED)
    /\ token' = token

\* C2: user_login for an activated user whose deleted flag is set and whose
\* password matches fails with ERR_USER_BLOCKED and leaves the token table
\* as it was.
C2_BlockedLogin == [][C2_Step]_vars

\* C2 witness: a blocked user presented the right password and was turned away
C2_Witness ==
  /\ last.op = "user_login"
  /\ BlockedMatch(last.arg[1], last.arg[2])
  /\ Failed(last, ERR_USER_BLOCKED)

\* ---------------------------------------------------------------------- C3
KnownActivated(email) == \E u \in tb_user : SameIgnoringCase(u.email, email)
C3_Step ==
  last'.op = "user_forgot_email" =>
    /\ last'.exc = "" => (last'.result = <<>> /\ last'.code = ERR_OK)
    /\ ~KnownActivated(last'.arg[1]) =>
          /\ last'.exc = ""
          /\ confirm_token' = confirm_token
          /\ last'.sent = <<>>
          /\ last'.ncommit = 0

\* C3: user_forgot_email returns (None, ERR_OK) whether or not the address
\* belongs to an activated user; when it belongs to none, the call returns,
\* the confirm-token table is unchanged, no mail is sent and nothing is
\* committed.
C3_ForgotSilent == [][C3_Step]_vars

\* C3 witness: user_forgot_email returned for an address no activated user
\* has, while another address would have matched
C3_Witness ==
  /\ last.op = "user_forgot_email"
  /\ ~KnownActivated(last.arg[1])
  /\ tb_user # {}
  /\ Succeeded(last)

\* ---------------------------------------------------------------------- C4
ControllerOps == {"user_register", "user_activate", "user_login", "user_refresh",
                  "user_forgot_email", "user_activation_email", "user_reset", "user_logout"}

\* C4: called with raise_error=False, no auth-controller operation raises
\* ControllerError: every domain failure comes back as (result, code).
C4_NeverRaises ==
  (last.op \in ControllerOps /\ ~last.raise_error) => last.exc # "ControllerError"

\* ---------------------------------------------------------------------- C5
LiveAccess(access) == \E r \in token : r.access = access /\ now < r.access_expiration
\* user_logout succeeds exactly on a live access token and deletes its row, so
\* that a later check_access_token on it fails; otherwise it fails with `code`
\* and deletes nothing
LogoutStep(code) ==
  /\ last'.op = "user_logout" =>
       LET access == last'.arg[1]
       IN IF LiveAccess(access)
            THEN /\ Succeeded(last')
                 /\ token' = {r \in token : r.access # access}
            ELSE /\ Failed(last', code)
                 /\ token' = token
  /\ (last'.op = "check_access_token" /\ <<"access", last'.arg[1]>> \in spent) =>
       ~Succeeded(last')

\* C5 as stated: user_logout succeeds only when the access token is present
\* and unexpired, deleting its row so that a later check fails; otherwise it
\* fails with ERR_AUTHORIZATION_FAILED and deletes nothing.
C5_LogoutAuthorizationFailed == [][LogoutStep(ERR_AUTHORIZATION_FAILED)]_vars

\* C5 amended: the same, but the failure carries ERR_ACCESS_TOKEN_EXPIRED, the
\* code of the check_access_token call inside user_logout.
C5_LogoutAccessExpired == [][LogoutStep(ERR_ACCESS_TOKEN_EXPIRED)]_vars

\* C5 witness: a logout with an expired access token failed, its row still there
C5_Witness ==
  /\ last.op = "user_logout"
  /\ Failed(last, ERR_ACCESS_TOKEN_EXPIRED)
  /\ \E r \in token : r.access = last.arg[1] /\ ~(now < r.access_expiration)

\* ---------------------------------------------------------------------- C6
Accounts == {<<"registration", r.id, r.email>> : r \in tb_registration}
              \cup {<<"user", u.id, u.email>> : u \in tb_user}
EmailsUnique == \A a, b \in Accounts : SameIgnoringCase(a[3], b[3]) => a = b
EmailHeld(email) == \E a \in Accounts : SameIgnoringCase(a[3], email)
C6_Step ==
  (last'.op = "user_register" /\ EmailHeld(last'.arg[1])) =>
    /\ Failed(last', ERR_USER_EMAIL_EXISTS)
    /\ tb_registration' = tb_registration
    /\ tb_user' = tb_user
    /\ confirm_token' = confirm_token

\* C6: ignoring case, no e-mail address is held by two rows of the pending
\* and activated relations taken together, after any sequence of the eight
\* controller operations; user_register with an address some row already
\* holds fails with ERR_USER_EMAIL_EXISTS and inserts neither a user row nor
\* a confirm token.
C6_EmailUnique == []EmailsUnique /\ [][C6_Step]_vars

\* C6 witness: a registration was refused for an address that differs only
\* in case from the one an activated user holds
C6_Witness ==
  /\ last.op = "user_register"
  /\ Failed(last, ERR_USER_EMAIL_EXISTS)
  /\ \E u \in tb_user : u.email # last.arg[1] /\ SameIgnoringCase(u.email, last.arg[1])

\* ---------------------------------------------------------------------- C7
\* C7: after any sequence of user_register, user_activation_email,
\* user_forgot_email, user_activate and user_reset the confirm-token table
\* holds at most one row for each (user_id, type).
C7_OneTokenPerUserAndType ==
  \A a, b \in confirm_token : (a.user_id = b.user_id /\ a.type = b.type) => a = b

\* C7 witness: one account exists, and its second password-reset token has
\* replaced the first
C7_Witness ==
  /\ seq.reg = 1
  /\ seq.ctk = 3
  /\ \E r \in confirm_token : r.type = TOKEN_PASSWORD_RESET /\ r.token = 3
  /\ \A r \in confirm_token : r.token # 2

\* ---------------------------------------------------------------------- C8
C8_Step ==
  last'.op = "user_activate" =>
    LET tkn == last'.arg[1]
    IN /\ \A t \in confirm_token :
            (tkn # 0 /\ t.token = tkn /\ t.type = TOKEN_NEW_USER) =>
              /\ Succeeded(last')
              /\ \A r \in tb_registration' : r.id # t.user_id
              /\ \E p \in tb_registration :
                    /\ p.id = t.user_id
                    /\ tb_registration' = tb_registration \ {p}
                    /\ \E u \in tb_user' :
                          /\ u \notin tb_user
                          /\ tb_user' = tb_user \cup {u}
                          /\ u.email = p.email /\ u.hash = p.hash
              /\ \A x \in confirm_token' : x.token # tkn
       /\ <<"confirm", tkn>> \in spent =>
            /\ Failed(last', ERR_CONFIRM_TOKEN_NOT_FOUND)
            /\ tb_registration' = tb_registration
            /\ tb_user' = tb_user

\* C8: user_activate with the value of a stored new-user token succeeds; the
\* pending row of the token's user_id is gone, exactly one activated row has
\* been created, carrying the pending row's email and hash, and the token is
\* gone.  user_activate with a value an earlier success used up fails with
\* ERR_CONFIRM_TOKEN_NOT_FOUND and changes neither user relation.
C8_ActivateOnce == [][C8_Step]_vars

\* C8 witness: a second user_activate with an already used token was refused
C8_Witness ==
  /\ last.op = "user_activate"
  /\ <<"confirm", last.arg[1]>> \in spent
  /\ Failed(last, ERR_CONFIRM_TOKEN_NOT_FOUND)

\* ---------------------------------------------------------------------- C9
\* C9: a QueryCanceledError met while execute_query_env runs always leaves
\* it as PGStatementTimeout carrying the call's arguments, with and without
\* fail_result; it is never returned as (fail_result, None).
C9_TimeoutEscalates ==
  (drv_last.op = "execute_query_env" /\ drv_last.inner[1] = "QueryCanceledError") =>
    /\ drv_last.exc = "PGStatementTimeout"
    /\ drv_last.params = <<drv_last.conn_id, drv_last.fail_result>> \o drv_last.args

\* --------------------------------------------------------------------- C10
Primitives == {"execute_query", "execute_query_light", "execute_copy",
               "set_statement_timeout", "_get_events"}
C10_Step ==
  (drv_last'.op \in Primitives /\ drv_last'.inner[1] # "") =>
    LET conn_id == drv_last'.conn_id
        held == (IF conn_id \in DOMAIN connections THEN {connections[conn_id]} ELSE {})
                  \cup (DOMAIN sockets' \ DOMAIN sockets)
    IN IF drv_last'.fail_result # "None"
         THEN /\ drv_last'.exc = ""
              /\ drv_last'.result = drv_last'.fail_result
              /\ drv_last'.err = drv_last'.inner[1] \o ": " \o drv_last'.inner[2]
              /\ conn_id \notin DOMAIN connections'
              /\ \A h \in held : sockets'[h].closed
              /\ configuration' = configuration
              /\ channels' = channels
         ELSE drv_last'.exc = drv_last'.inner[1]

\* C10: a decorated primitive called with a fail_result, whose connect or
\* statement raises, returns (fail_result, "<class>: <message>"); the
\* connection of that id is closed and no longer in the pool; the
\* configuration and channel maps are unchanged.  Without fail_result the
\* exception leaves the call.
C10_FailResult == [][C10_Step]_vars

\* C10 witness: a statement failed under a fail_result on a pooled
\* connection, which is now closed and out of the pool
C10_Witness ==
  /\ drv_last.op \in Primitives
  /\ drv_last.fail_result # "None"
  /\ drv_last.inner[1] \in {"OperationalError", "QueryCanceledError"}
  /\ drv_last.result = drv_last.fail_result
  /\ drv_last.conn_id \notin DOMAIN connections
  /\ \E h \in DOMAIN sockets : sockets[h].closed

\* --------------------------------------------------------------------- C11
\* the settings an add_connection call recorded in l was made with
KwargsOf(l) == [settings |-> l.args[1], isolation_level |-> l.args[2],
                statement_timeout |-> "None"]
C11_Step ==
  drv_last'.op = "add_connection" =>
    LET conn_id == drv_last'.conn_id
        kwargs  == KwargsOf(drv_last')
    IN /\ sockets' = sockets
       /\ connections' = connections
       /\ channels' = channels
       /\ IF conn_id \in DOMAIN configuration
            THEN /\ configuration' = configuration
                 /\ drv_last'.exc = IF configuration[conn_id] = kwargs THEN "" ELSE "ValueError"
            ELSE /\ drv_last'.exc = ""
                 /\ configuration' = Put(configuration, conn_id, kwargs)

\* C11: add_connection never opens a physical connection; for an id already
\* registered with identical settings it succeeds and leaves the
\* configuration map unchanged; with settings that differ from the stored
\* ones it raises and leaves the stored settings and any live connection of
\* the id unchanged.
C11_AddConnection == [][C11_Step]_vars

\* C11 witness: conflicting settings were refused for an id whose connection
\* is live
C11_Witness ==
  /\ drv_last.op = "add_connection"
  /\ drv_last.exc = "ValueError"
  /\ drv_last.conn_id \in DOMAIN connections
  /\ ~sockets[connections[drv_last.conn_id]].closed

\* --------------------------------------------------------------------- C12
\* the event connection of base id b is in the pool and usable
EventLive(b) ==
  /\ event_id(b) \in DOMAIN connections
  /\ sockets[connections[event_id(b)]].alive
  /\ ~sockets[connections[event_id(b)]].closed
\* the channels added and not removed since for base id b
Subscribed(b) == IF event_id(b) \in DOMAIN channels THEN channels[event_id(b)] ELSE {}

\* C12: whenever the event connection of a base id is live, the channel names
\* it is LISTENing on (as sanitized) are exactly the channels added and not
\* removed since for that id.
C12_ChannelsDurable ==
  \A b \in BaseIds :
    EventLive(b) =>
      sockets[connections[event_id(b)]].listen = {sanitize(c) : c \in Subscribed(b)}

\* --------------------------------------------------------------------- C13
\* key k is stored in section s, whatever its value
Present(k, s) == s \in DOMAIN _cfg_obj._cfg /\ k \in DOMAIN _cfg_obj._cfg[s]
\* the sections get_value consults for a request, in order
LookupOrder(section_name) == <<section_name, _cfg_obj._sec_environment, DEFAULT_SECTION>>
FirstPresent(k, section_name) ==
  LET order == LookupOrder(section_name)
      hits  == {i \in 1..3 : Present(k, order[i])}
  IN IF hits = {} THEN 0 ELSE CHOOSE i \in hits : \A j \in hits : i <= j

\* C13: get_value(key, section) without a cast returns the value stored in the
\* first of (requested section, active-environment section, 'common') that
\* holds the key, whatever that value is (an empty string included), and the
\* default only when none of the three holds it.
C13_FirstPresentWins ==
  (lib_last.op = "get_value" /\ lib_last.args[3] = "None") =>
    LET k == lib_last.args[1]
        i == FirstPresent(k, lib_last.args[2])
    IN /\ lib_last.exc = ""
       /\ lib_last.result = IF i = 0 THEN lib_last.args[4]
                            ELSE _cfg_obj._cfg[LookupOrder(lib_last.args[2])[i]][k]

\* --------------------------------------------------------------------- C14
RECURSIVE AllAbsent(_)
AllAbsent(t) == IF IsLeaf(t) THEN t.value = "None" ELSE AllAbsent(t.l) /\ AllAbsent(t.r)

\* C14: where() returns ('TRUE', {}) when expr_func is None and whenever the
\* expression is built, by any nesting of & and |, only of comparisons, LIKE,
\* array operators, IN and NOT IN whose right operand is None: no placeholder
\* and no parameter is made for an absent value.
C14_AbsentIsTrue ==
  (lib_last.op = "where"
     /\ (lib_last.args[1] = NoExprFunc \/ AllAbsent(lib_last.args[1]))) =>
    /\ lib_last.exc = ""
    /\ lib_last.result = <<<<"TRUE">>, <<>>>>

C14_Witness ==
  /\ lib_last.op = "where"
  /\ lib_last.args[1] = [op |-> "OR",
                         l |-> [field |-> "a", cmp |-> "IN", value |-> "None"],
                         r |-> [op |-> "AND", l |-> [field |-> "a", cmp |-> "LIKE", value |-> "None"],
                                              r |-> [field |-> "a", cmp |-> "@>", value |-> "None"]]]
  /\ lib_last.result[1] = <<"TRUE">>

\* --------------------------------------------------------------------- C15
\* the comparisons a truth assignment decides, as <<field, cmp, value>>
Comparisons == {<<t.field, t.cmp, t.value>> : t \in {x \in CmpLeaves : x.value # "None"}}
TruthAssignments == [Comparisons -> BOOLEAN]

\* the truth of a tree with its empty operands dropped: "T", "F", or "-" when
\* nothing is left of it
RECURSIVE TreeTruth(_, _)
TreeTruth(t, sigma) ==
  IF IsLeaf(t)
    THEN IF t.value = "None" THEN "-"
         ELSE IF sigma[<<t.field, t.cmp, t.value>>] THEN "T" ELSE "F"
    ELSE LET a == TreeTruth(t.l, sigma)
             b == TreeTruth(t.r, sigma)
         IN IF a = "-" THEN b
            ELSE IF b = "-" THEN a
            ELSE IF t.op = "AND" THEN (IF a = "T" /\ b = "T" THEN "T" ELSE "F")
            ELSE (IF a = "T" \/ b = "T" THEN "T" ELSE "F")

\* positions of token tok of s that are outside every parenthesis
TopLevel(s, tok) ==
  {i \in 1..Len(s) :
     /\ s[i] = tok
     /\ Cardinality({j \in 1..i : s[j] = "("}) = Cardinality({j \in 1..i : s[j] = ")"})}
First(S) == CHOOSE i \in S : \A j \in S : i <= j

\* the truth of rendered SQL as the database reads it: OR binds weakest, then
\* AND, then a comparison; a placeholder stands for the value bound to it
RECURSIVE SqlTruth(_, _, _)
SqlTruth(s, params, sigma) ==
  LET ors  == TopLevel(s, "OR")
      ands == TopLevel(s, "AND")
  IN IF ors # {}
       THEN SqlTruth(SubSeq(s, 1, First(ors) - 1), params, sigma)
              \/ SqlTruth(SubSeq(s, First(ors) + 1, Len(s)), params, sigma)
     ELSE IF ands # {}
       THEN SqlTruth(SubSeq(s, 1, First(ands) - 1), params, sigma)
              /\ SqlTruth(SubSeq(s, First(ands) + 1, Len(s)), params, sigma)
     ELSE IF s[1] = "(" THEN SqlTruth(SubSeq(s, 2, Len(s) - 1), params, sigma)
     ELSE IF s = <<"TRUE">> THEN TRUE
     ELSE IF s = <<"FALSE">> THEN FALSE
     ELSE \E name \in DOMAIN params :
            /\ s[3] = "%(" \o name \o ")s"
            /\ sigma[<<s[1], s[2], params[name]>>]

RECURSIVE BoundLeaves(_)
BoundLeaves(t) ==
  IF IsLeaf(t) THEN (IF t.value = "None" THEN 0 ELSE 1)
  ELSE BoundLeaves(t.l) + BoundLeaves(t.r)

\* C15: for every tree of & and | over comparisons, bound or empty, the
\* rendered SQL read with SQL precedence is as true as the tree with its empty
\* operands dropped, under every truth assignment, and the parameter map holds
\* exactly one binding for each non-empty leaf.
C15_RenderedSqlFaithful ==
  (lib_last.op = "where" /\ lib_last.args[1] # NoExprFunc) =>
    LET t      == lib_last.args[1]
        sql    == lib_last.result[1]
        params == lib_last.result[2]
    IN /\ lib_last.exc = ""
       /\ Cardinality(DOMAIN params) = BoundLeaves(t)
       /\ \A sigma \in TruthAssignments :
            LET want == TreeTruth(t, sigma)
            IN SqlTruth(sql, params, sigma) = (want \in {"T", "-"})

C15_Witness ==
  /\ lib_last.op = "where"
  /\ lib_last.args[1] = [op |-> "AND",
                         l |-> [op |-> "OR", l |-> [field |-> "a", cmp |-> "=", value |-> "1"],
                                             r |-> [field |-> "a", cmp |-> "=", value |-> "None"]],
                         r |-> [field |-> "a", cmp |-> "=", value |-> "2"]]
  /\ Cardinality(DOMAIN lib_last.result[2]) = 2

\* --------------------------------------------------------------------- C16
\* C16: for ids x with 0 <= x < 2^23, unhashid of the string hashid(x) is x
\* again, and hashid returns different strings for different ids.
C16_HashidRoundTrip ==
  /\ lib_last.op = "unhashid" =>
       \E i \in 1..2 : lib_last.args[1] = hashid(input[i]) /\ lib_last.result = input[i]
  /\ lib_last.op = "hashid" =>
       \A j \in 1..2 : input[j] # lib_last.args[1] => hashid(input[j]) # lib_last.result

C16_Witness ==
  /\ lib_last.op = "unhashid"
  /\ lib_last.result = base - 1
  /\ lib_last.args[1] # format_x(2 * base - 1)

\* --------------------------------------------------------------------- C17
KeyIn(t, row) == row[IndexOf(t.cols, "k")]
NonKey(t, row) == Without(row, {IndexOf(t.cols, "k")})
\* the rows of other with the key of a source row, in other's order
MatchesOf(row) ==
  SelectSeq(input.other.rows, LAMBDA r : KeyIn(input.other, r) = KeyIn(input.source, row))
DuplicateOtherKey ==
  \E i, j \in 1..Len(input.other.rows) :
    i # j /\ KeyIn(input.other, input.other.rows[i]) = KeyIn(input.other, input.other.rows[j])
UnmatchedSourceKey ==
  \E i \in 1..Len(input.source.rows) : MatchesOf(input.source.rows[i]) = <<>>
\* the rows of a join from source row i on; fill is what stands for no match
RECURSIVE JoinedFrom(_, _)
JoinedFrom(i, fill) ==
  IF i > Len(input.source.rows) THEN <<>>
  ELSE LET row == input.source.rows[i]
           ms  == MatchesOf(row)
           out == IF ms = <<>> THEN [n \in 1..Len(fill) |-> row \o fill[n]]
                  ELSE [n \in 1..Len(ms) |-> row \o NonKey(input.other, ms[n])]
       IN out \o JoinedFrom(i + 1, fill)
JoinedCols == input.source.cols \o NonKey(input.other, input.other.cols)
FillOf(default) == <<IF "b" \in DOMAIN default THEN default["b"] ELSE "None">>

\* C17: merge raises when other has two rows of one key or lacks the key of a
\* source row, and otherwise returns one row per source row, in order, extended
\* with other's non-key columns; left_join returns for each source row in order
\* one row per matching row of other, or one row filled with the defaults (None
\* without a default) when nothing matches; inner_join returns the same without
\* the unmatched source rows.  The columns are source's, then other's non-key ones.
C17_MergeAndJoins ==
  /\ lib_last.op = "merge" =>
       IF DuplicateOtherKey \/ UnmatchedSourceKey
         THEN lib_last.exc = "ValueError"
         ELSE /\ lib_last.exc = ""
              /\ lib_last.result.cols = JoinedCols
              /\ Len(lib_last.result.rows) = Len(input.source.rows)
              /\ lib_last.result.rows = JoinedFrom(1, <<>>)
  /\ lib_last.op = "left_join" =>
       /\ lib_last.exc = ""
       /\ lib_last.result.cols = JoinedCols
       /\ lib_last.result.rows = JoinedFrom(1, <<FillOf(lib_last.args[1])>>)
  /\ lib_last.op = "inner_join" =>
       /\ lib_last.exc = ""
       /\ lib_last.result.cols = JoinedCols
       /\ lib_last.result.rows = JoinedFrom(1, <<>>)

C17_Witness ==
  /\ lib_last.op = "left_join"
  /\ lib_last.args[1] = <<>>
  /\ lib_last.exc = ""
  /\ Len(lib_last.result.rows) > Len(input.source.rows)
  /\ \E n \in 1..Len(lib_last.result.rows) : lib_last.result.rows[n][3] = "None"

\* --------------------------------------------------------------------- C18
\* the first table of the list that holds key k, 0 when none does
FirstHolding(k) ==
  LET hs == {i \in 1..Len(input.tables) : k \in input.tables[i].keys}
  IN IF hs = {} THEN 0 ELSE CHOOSE i \in hs : \A j \in hs : i <= j
Searched == {input.search_list[n] : n \in 1..Len(input.search_list)}
\* the keys no table before table i resolves
PendingAt(i) == {k \in Searched : FirstHolding(k) = 0 \/ FirstHolding(k) >= i}
ExpectedValue(k, default_value) ==
  IF FirstHolding(k) = 0 THEN default_value
  ELSE ValueIn(input.tables[FirstHolding(k)].name, k)

BatchCodes(args) == UNION {DOMAIN args[i] : i \in 1..Len(args)}
RegistryCall == err_last.op \in {"add_errors", "http_error", "add_http_errors"}

\* C19: add_errors raises when a code of the submitted batch is registered
\* already; a call that raised leaves the code-to-message registry as it was
\* before the call; and no call of add_errors, http_error or add_http_errors
\* changes the message of a code that was registered before it.
C19_RejectedBatchLeavesRegistry ==
  RegistryCall =>
    /\ (err_last.op = "add_errors" /\ BatchCodes(err_last.args) \cap DOMAIN err_last.before # {})
         => err_last.exc = "ValueError"
    /\ err_last.exc = "ValueError" => ERRORS = err_last.before
    /\ \A c \in DOMAIN err_last.before : c \in DOMAIN ERRORS /\ ERRORS[c] = err_last.before[c]

\* --------------------------------------------------------------------- C20
\* how many records of the last call have this level and this message
Written(level, msg) ==
  Cardinality({i \in 1..Len(log_last.written) :
                 log_last.written[i].level = level /\ log_last.written[i].msg = msg})
\* the last call began a run: no run was open, or the open run had another message
BeginsRun(prev) == prev.k = 0 \/ prev.mess # log_last.mess
Flushed(prev, ended) == IF ended /\ prev.k > 2 THEN 1 ELSE 0

\* C20: of a run of equal warning messages at an enabled level only the first
\* call writes a warning record, also in the first run after setup; the call
\* that ends a run, a warning with another message or destroy(), writes one
\* info line 'Last warning duplicated N times' when the run counted more than
\* 2 calls and none otherwise.  The same holds of errors, counted on their own.
C20_DuplicatesCollapsed ==
  /\ (log_last.op = "warning" /\ log_last.log_level <= LOG_WARNING) =>
       /\ Written(LOG_WARNING, log_last.mess) = IF BeginsRun(log_last.wprev) THEN 1 ELSE 0
       /\ Written(LOG_INFO, "Last warning duplicated {} times")
            = Flushed(log_last.wprev, BeginsRun(log_last.wprev))
  /\ (log_last.op = "error" /\ log_last.log_level <= LOG_ERROR) =>
       /\ Written(LOG_ERROR, log_last.mess) = IF BeginsRun(log_last.eprev) THEN 1 ELSE 0
       /\ Written(LOG_INFO, "Last error duplicated {} times")
            = Flushed(log_last.eprev, BeginsRun(log_last.eprev))
  /\ log_last.op = "destroy" =>
       /\ Written(LOG_INFO, "Last warning duplicated {} times") = Flushed(log_last.wprev, TRUE)
       /\ Written(LOG_INFO, "Last error duplicated {} times") = Flushed(log_last.eprev, TRUE)

\* --------------------------------------------------------------------- C21
\* C21: a resume of the task generator before next_start runs nothing and
\* leaves next_start as it was; a resume at or after next_start runs the task
\* once and moves next_start past the time of the resume; the task never runs
\* but in a resume, and at most once in each.
C21_ResumeRunsWhenDue ==
  /\ cron_last.runs <= cron_last.resumes
  /\ cron_last.op = "resume" =>
       IF cron_last.at < cron_last.before
         THEN cron_last.ran = 0 /\ next_start = cron_last.before
         ELSE cron_last.ran = 1 /\ next_start > cron_last.at

\* --------------------------------------------------------------------- C22
LiveRows(tok) == {r \in tok : r.access_expiration > now}
RabbidzStep == last'.op = "remove_rabbidz"

\* what both readings of remove_rabbidz(allowed_count) share: at most
\* allowed_count live rows remain, nothing is deleted when no more than
\* allowed_count were live, and the value returned counts the rows deleted
RabbidzBounds ==
  /\ token' \subseteq token
  /\ Cardinality(LiveRows(token')) <= last'.arg[1]
  /\ Cardinality(LiveRows(token)) <= last'.arg[1] => token' = token
  /\ last'.result = <<Cardinality(token \ token')>>

\* C22 (as stated): ... and every row deleted expires no later than every
\* live row kept, the oldest rows being the ones that go.
C22_DeletesOldest ==
  [][RabbidzStep =>
       /\ RabbidzBounds
       /\ \A d \in token \ token', k \in LiveRows(token') :
            d.access_expiration <= k.access_expiration]_vars

\* C22 (amended): after remove_rabbidz(allowed_count) at most allowed_count
\* live rows remain, nothing is deleted when at most allowed_count were live,
\* the value returned is the number of rows deleted, and every row deleted
\* expires no earlier than every live row kept: the freshest rows go.
C22_DeletesFreshest ==
  [][RabbidzStep =>
       /\ RabbidzBounds
       /\ \A d \in token \ token', k \in LiveRows(token') :
            d.access_expiration >= k.access_expiration]_vars

\* C22 witness: a call deleted rows and kept as many live rows as it allows
C22_Witness ==
  /\ last.op = "remove_rabbidz"
  /\ last.result[1] > 0
  /\ last.arg[1] > 0
  /\ Cardinality(LiveRows(token)) = last.arg[1]

\* --------------------------------------------------------------------- C23
\* C23: a Tabular transformation leaves the rows and columns of the relation
\* it is applied to as they were and returns a relation on row storage of its
\* own, so that an extend of the returned relation never shows in the source.
C23_TransformationsDoNotAlias ==
  /\ ValueOf(tab_lists, tab_objs[1]) = input.source
  /\ Len(tab_objs) = 4 => tab_objs[4].rows # tab_objs[1].rows

\* --------------------------------------------------------------------- C24
BothDone == \A p \in Callers : race[p].pc = "done" /\ race[p].refresh # 0
\* the callers that came back with a new pair
Refreshed == {p \in Callers : race[p].pc = "done" /\ race[p].code = ERR_OK /\ race[p].result # <<>>}

\* C24: of two refresh_tokens calls that present the same unexpired refresh
\* value on two connections, however their statements interleave, at most
\* one returns a new pair and the other fails with refresh-token-expired.
C24_RefreshSingleUse ==
  /\ Cardinality(Refreshed) <= 1
  /\ BothDone => \E p \in Callers : race[p].code = ERR_REFRESH_TOKEN_EXPIRED

\* --------------------------------------------------------------------- C25
ExecuteStep == last'.op = "execute_query"
\* the statement's transaction was committed / rolled back / left open
Committed  == last'.ncommit = 1
RolledBack == committed' = committed /\ tb_registration' = committed.reg
LeftOpen   == /\ committed' = committed
              /\ tb_registration' # tb_registration
              /\ tb_registration \subseteq tb_registration'

\* C25: execute_query commits after the statement exactly when commit is set
\* and the without-commit flag is off; it rolls back only when commit was not
\* asked for and rollback is set, so a call with commit=True never rolls
\* back, whatever the flag; with neither the transaction stays open.
C25_CommitNeverRollsBack ==
  [][ExecuteStep =>
       /\ Committed <=> (last'.arg[1] /\ ~input.without_commit)
       /\ RolledBack => (~last'.arg[1] /\ last'.arg[2])
       /\ (~last'.arg[1] /\ ~last'.arg[2]) => LeftOpen]_vars

\* --------------------------------------------------------------------- C26
RowDictCall == lib_last.op \in {"to_dicts", "to_models"} /\ lib_last.exc = ""
\* the columns the call asked for, all of them when it named none
Requested == IF lib_last.args[1] = <<>> THEN input.source.cols ELSE lib_last.args[1]
RowDict(i) == IF lib_last.op = "to_dicts" THEN lib_last.result[i] ELSE lib_last.result[i].kwargs

\* C26: to_dicts(cols) and to_models(model, cols) give one dict (one model)
\* per row, in row order, that maps every requested column to the value the
\* row holds in that column, for a single requested column at any position
\* as for several.
C26_RowsByColumnName ==
  RowDictCall =>
    /\ Len(lib_last.result) = Len(input.source.rows)
    /\ \A i \in 1..Len(input.source.rows), n \in 1..Len(Requested) :
         /\ Requested[n] \in DOMAIN RowDict(i)
         /\ RowDict(i)[Requested[n]] =
              input.source.rows[i][IndexOf(input.source.cols, Requested[n])]

\* --------------------------------------------------------------------- C27
RowsOf(tok, uid) == {r \in tok : r.user_id = uid}
Returned(op) == last'.op = op /\ last'.exc = "" /\ last'.code = ERR_OK
\* the user whose row carries the access value a in the table before the step
HolderOf(a) == {r.user_id : r \in {x \in token : x.access = a}}

\* C27: with user_login, user_refresh and user_logout called one at a time
\* the token table never holds two rows of one user: a successful login
\* leaves the user exactly the pair it returned, a successful refresh puts
\* the returned pair in the place of the presented one, and a successful
\* logout leaves the user no row.
C27_OneSessionPerUser ==
  [][/\ \A r1 \in token', r2 \in token' : r1.user_id = r2.user_id => r1 = r2
     /\ Returned("user_login") =>
          RowsOf(token', last'.result[1].user_id) = {last'.result[1]}
     /\ Returned("user_refresh") =>
          /\ RowsOf(token', last'.result[1].user_id) = {last'.result[1]}
          /\ last'.result[1] \notin token
          /\ \A r \in token' : r.refresh # last'.arg[1]
     /\ Returned("user_logout") =>
          \A u \in HolderOf(last'.arg[1]) : RowsOf(token', u) = {}]_vars

\* a refresh has replaced the pair of one user while another user holds a session
C27_Witness ==
  /\ last.op = "user_refresh" /\ last.exc = "" /\ last.code = ERR_OK
  /\ Cardinality(token) = 2
  /\ Cardinality({r.user_id : r \in token}) = 2

\* --------------------------------------------------------------------- C28
\* user_refresh turned the caller away because of the state of the account
RefreshRejected ==
  /\ last'.op = "user_refresh"
  /\ last'.code \in {ERR_USER_BLOCKED, ERR_AUTHORIZATION_FAILED}
\* check_access_token would accept the row after the step
Accepted(r) == now' < r.access_expiration

\* C28: when user_refresh rejects the caller because the user is flagged
\* deleted or no longer exists, the token table holds afterwards no row of
\* that user that check_access_token would accept.
C28_RejectedRefreshLeavesNoSession ==
  [][RefreshRejected =>
       \A r \in token : r.refresh = last'.arg[1] =>
         \A x \in RowsOf(token', r.user_id) : ~Accepted(x)]_vars

\* --------------------------------------------------------------------- C29
\* user_register has just been aborted by send_invite, after its inserts and
\* before its do_commit
RegisterAborted == last.op = "user_register" /\ last.exc = "MailError"
\* the rows the aborted call left in the open transaction of the connection
PendingUsers  == tb_registration \ committed.reg
PendingTokens == confirm_token \ committed.ctk

\* C29: the pending user and the confirm token that an aborted user_register
\* left uncommitted never become committed: no operation that follows on the
\* same connection and commits makes them durable.
C29_AbortedRegisterNotCommitted ==
  [][RegisterAborted =>
       /\ PendingUsers \cap committed'.reg = {}
       /\ PendingTokens \cap committed'.ctk = {}]_vars

\* --------------------------------------------------------------------- C30
\* the settings conn_id would give its event connection
EventSettings(conn_id) == [configuration[conn_id] EXCEPT !.isolation_level = "autocommit"]

\* C30: in every state the pool reaches by add_connection,
\* pg_forget_connection, close_connection, reset_pools and the event
\* operations, a configuration entry '<id>_event' comes with an entry for
\* <id> and equals it but for the isolation level, which is autocommit.
C30_EventSettingsFollowBase ==
  \A b \in BaseIds :
    Has(configuration, event_id(b)) =>
      /\ Has(configuration, b)
      /\ configuration[event_id(b)] = EventSettings(b)

====
